---- MODULE Spec2Model ----
(***************************************************************************)
(* A model of the cutio editing core: clips, tracks and the Timeline       *)
(* (src/src/types), the clip-split function (src/src/ops/clip_ops.rs) and  *)
(* the timeline edits made by the timeline widget                          *)
(* (src/src/ui/timeline_widget.rs).                                        *)
(*                                                                         *)
(* Times are f64 in the source.  They are modelled as binary floating      *)
(* point numbers of reduced precision: a value is an integer number of     *)
(* quanta (one second is 2^FracBits quanta) and it is representable when   *)
(* it has at most MantBits significant bits.  Every addition and           *)
(* subtraction rounds its exact result to the nearest representable value, *)
(* ties to even, as IEEE 754 arithmetic does.  Comparisons are exact.      *)
(***************************************************************************)
EXTENDS Integers, Sequences, FiniteSets, TLC

VARIABLES timeline, crashed, op, cutIn, renderer, rendered, cleared, bridge, now,
          lastCalls, pull, library, threads, app

vars == <<timeline, crashed, op, cutIn, renderer, rendered, cleared, bridge, now,
          lastCalls, pull, library, threads, app>>

\* the components that neither the widget, the renderer nor the bridge touch
ovars == <<pull, library, threads, app>>

\* the renderer, the playback bridge and the wall clock
pvars == <<renderer, rendered, cleared, bridge, now, lastCalls>>

\* all that the timeline widget leaves alone
rvars == <<pvars, ovars>>

\* the timeline and the record of the last call
wvars == <<timeline, crashed, op, cutIn>>

---------------------------------------------------------------------------
(* Bounds of the model *)

\* significant bits of a floating point value (53 in f64)
MantBits == 10
\* binary digits of a second that a quantum resolves
FracBits == 1
\* tracks a timeline may hold in the model
MaxTracks == 2
\* clips a timeline may hold in the model, over all its tracks
MaxClips == 3
\* clips a timeline may hold while a renderer is attached to it
MaxRenderClips == 2

---------------------------------------------------------------------------
(* f64 arithmetic *)

Abs(n) == IF n < 0 THEN 0 - n ELSE n

\* the first magnitude whose neighbours are more than one quantum apart
Big == 2 ^ MantBits

\* n seconds, in quanta
Sec(n) == n * (2 ^ FracBits)

RECURSIVE Spacing(_)
\* distance between neighbouring representable values at magnitude a (one ulp)
Spacing(a) == IF a < Big THEN 1 ELSE 2 * Spacing(a \div 2)

\* round to nearest representable value, ties to the even significand
Round(n) ==
  LET a   == Abs(n)
      u   == Spacing(a)
      q   == a \div u
      lo  == q * u
      rem == a - lo
      r   == IF 2 * rem < u THEN lo
             ELSE IF 2 * rem > u THEN lo + u
             ELSE IF q % 2 = 0 THEN lo ELSE lo + u
  IN IF n < 0 THEN 0 - r ELSE r

IsFloat(n) == Round(n) = n

FAdd(a, b) == Round(a + b)

FSub(a, b) == Round(a - b)

---------------------------------------------------------------------------
(* Clips: VideoClip and AudioClip, with the variant as the field kind *)

VideoMetadata == [resolution |-> <<1920, 1080>>, frame_rate |-> 30, codec |-> "h264"]

AudioMetadata == [sample_rate |-> 48000, channels |-> 2, codec |-> "pcm", bitrate |-> 1536]

None == <<>>

Some(x) == <<x>>

\* format!("{}_left", id) and format!("{}_right", id): an id is the sequence
\* of the pieces it was concatenated from
FormatLeft(id) == Append(id, "_left")

FormatRight(id) == Append(id, "_right")

\* Variants of cut_clip_at with one slip each, to try the claims against.
HalvesWith(clip, playhead, left_out, right_in, right_duration) ==
  Some(<< [clip EXCEPT !.id = FormatLeft(clip.id),
                        !.out_point = left_out,
                        !.duration = FSub(playhead, clip.start_time)],
          [clip EXCEPT !.id = FormatRight(clip.id),
                        !.in_point = right_in,
                        !.start_time = playhead,
                        !.duration = right_duration] >>)

Outside(clip, playhead) ==
  playhead <= clip.start_time \/ playhead >= FAdd(clip.start_time, clip.duration)

\* the right half keeps the duration of the whole clip
cut_clip_at_WrongRightDuration(clip, playhead) ==
  IF Outside(clip, playhead) THEN None
  ELSE HalvesWith(clip, playhead,
                  FAdd(clip.in_point, FSub(playhead, clip.start_time)),
                  FAdd(clip.in_point, FSub(playhead, clip.start_time)),
                  clip.duration)

\* the left half ends at the playhead's timeline time, not its source time
cut_clip_at_LeftOutIsPlayhead(clip, playhead) ==
  IF Outside(clip, playhead) THEN None
  ELSE HalvesWith(clip, playhead,
                  playhead,
                  FAdd(clip.in_point, FSub(playhead, clip.start_time)),
                  FSub(FAdd(clip.start_time, clip.duration), playhead))

\* a playhead on the boundary of the clip is accepted
cut_clip_at_NonStrict(clip, playhead) ==
  IF playhead < clip.start_time \/ playhead > FAdd(clip.start_time, clip.duration)
  THEN None
  ELSE HalvesWith(clip, playhead,
                  FAdd(clip.in_point, FSub(playhead, clip.start_time)),
                  FAdd(clip.in_point, FSub(playhead, clip.start_time)),
                  FSub(FAdd(clip.start_time, clip.duration), playhead))

\* the right half keeps the in_point of the whole clip
cut_clip_at_RightInNotAdvanced(clip, playhead) ==
  IF Outside(clip, playhead) THEN None
  ELSE HalvesWith(clip, playhead,
                  FAdd(clip.in_point, FSub(playhead, clip.start_time)),
                  clip.in_point,
                  FSub(FAdd(clip.start_time, clip.duration), playhead))

\* the right half starts at the playhead's timeline time in the source
cut_clip_at_RightInIsPlayhead(clip, playhead) ==
  IF Outside(clip, playhead) THEN None
  ELSE HalvesWith(clip, playhead,
                  FAdd(clip.in_point, FSub(playhead, clip.start_time)),
                  playhead,
                  FSub(FAdd(clip.start_time, clip.duration), playhead))

\* cut_clip_at: None when the playhead is not strictly inside the clip,
\* otherwise the two halves built from clones of the clip
cut_clip_at(clip, playhead) ==
  LET clip_start == clip.start_time
      clip_end   == FAdd(clip.start_time, clip.duration)
  IN IF playhead <= clip_start \/ playhead >= clip_end
     THEN None
     ELSE LET left  == [clip EXCEPT !.id = FormatLeft(clip.id),
                                    !.in_point = clip.in_point,
                                    !.out_point = FAdd(clip.in_point, FSub(playhead, clip_start)),
                                    !.start_time = clip_start,
                                    !.duration = FSub(playhead, clip_start)]
              right == [clip EXCEPT !.id = FormatRight(clip.id),
                                    !.in_point = FAdd(clip.in_point, FSub(playhead, clip_start)),
                                    !.out_point = clip.out_point,
                                    !.start_time = playhead,
                                    !.duration = FSub(clip_end, playhead)]
          IN Some(<<left, right>>)

---------------------------------------------------------------------------
(* Tracks and the Timeline *)

\* the metadata the timeline widget gives to a dropped video item
DroppedVideoMetadata == [resolution |-> <<1920, 1080>>, frame_rate |-> 30, codec |-> "unknown"]

\* the metadata the timeline widget gives to a dropped audio item
DroppedAudioMetadata == [sample_rate |-> 44100, channels |-> 2, codec |-> "unknown", bitrate |-> 0]

\* the duration the widget gives every dropped audio item: 5.0 seconds
DroppedAudioSeconds == 5

\* Timeline { tracks: vec![], frame_rate: 30.0, resolution: (1920, 1080), duration: 600.0 }
MainTimelineSeconds == 600

MainTimeline ==
  [tracks |-> <<>>, duration |-> Sec(MainTimelineSeconds), frame_rate |-> 30,
   resolution |-> <<1920, 1080>>]

\* the halves are inserted in the wrong order
ReplaceByPair_RightFirst(clips, i, left, right) ==
  SubSeq(clips, 1, i - 1) \o <<right, left>> \o SubSeq(clips, i + 1, Len(clips))

\* Vec::remove(i) then insert(i, right) then insert(i, left), i counted from 1
ReplaceByPair(clips, i, left, right) ==
  SubSeq(clips, 1, i - 1) \o <<left, right>> \o SubSeq(clips, i + 1, Len(clips))

RECURSIVE SplitClips(_, _, _)
\* the loop over 0..clips.len() of one matching track, from index i on:
\* the new clip list when a clip was split, None when the loop ends without one
SplitClips(clips, i, playhead) ==
  IF i > Len(clips) THEN None
  ELSE LET clip == clips[i]
       IN IF playhead > clip.start_time /\ playhead < FAdd(clip.start_time, clip.duration)
          THEN LET cut == cut_clip_at(clip, playhead)
               IN IF cut # None
                  THEN Some(ReplaceByPair(clips, i, cut[1][1], cut[1][2]))
                  ELSE SplitClips(clips, i + 1, playhead)
          ELSE SplitClips(clips, i + 1, playhead)

\* true is returned as soon as a track has the id, split or not
SplitTracks_TrueOnMatch(tracks, k, track_id, playhead) ==
  LET hit == {j \in k .. Len(tracks) : tracks[j].id = track_id}
  IN <<tracks, hit # {}>>

RECURSIVE SplitTracks(_, _, _, _)
\* the loop over the tracks, from index k on: <<tracks afterwards, returned value>>
SplitTracks(tracks, k, track_id, playhead) ==
  IF k > Len(tracks) THEN <<tracks, FALSE>>
  ELSE IF tracks[k].id = track_id
       THEN LET r == SplitClips(tracks[k].clips, 1, playhead)
            IN IF r # None
               THEN <<[tracks EXCEPT ![k].clips = r[1]], TRUE>>
               ELSE SplitTracks(tracks, k + 1, track_id, playhead)
       ELSE SplitTracks(tracks, k + 1, track_id, playhead)

\* Timeline::split_clip_at_playhead: <<timeline afterwards, returned value>>
split_clip_at_playhead(tl, track_id, playhead) ==
  LET r == SplitTracks(tl.tracks, 1, track_id, playhead)
  IN <<[tl EXCEPT !.tracks = r[1]], r[2]>>

\* ActiveClip::Video(clip.clone()) or ActiveClip::Audio(clip.clone()),
\* the variant being the one of the track the clip is on
ActiveClip(track, clip) == [variant |-> track.kind, clip |-> clip]

RECURSIVE ActiveInClips_ClosedEnd(_, _, _, _)
\* the end of the clip is taken as part of it
ActiveInClips_ClosedEnd(track, i, time, result) ==
  IF i > Len(track.clips) THEN result
  ELSE LET clip == track.clips[i]
       IN ActiveInClips_ClosedEnd(track, i + 1, time,
            IF clip.start_time <= time /\ time <= FAdd(clip.start_time, clip.duration)
            THEN Append(result, ActiveClip(track, clip))
            ELSE result)

RECURSIVE ActiveInClips(_, _, _, _)
\* the loop over the clips of one track, from index i on
ActiveInClips(track, i, time, result) ==
  IF i > Len(track.clips) THEN result
  ELSE LET clip == track.clips[i]
       IN ActiveInClips(track, i + 1, time,
            IF clip.start_time <= time /\ time < FAdd(clip.start_time, clip.duration)
            THEN Append(result, ActiveClip(track, clip))
            ELSE result)

RECURSIVE ActiveInTracks(_, _, _, _)
\* the loop over the tracks, from index k on
ActiveInTracks(tracks, k, time, result) ==
  IF k > Len(tracks) THEN result
  ELSE ActiveInTracks(tracks, k + 1, time, ActiveInClips(tracks[k], 1, time, result))

\* Timeline::active_clips_at
active_clips_at(tl, time) == ActiveInTracks(tl.tracks, 1, time, <<>>)

RECURSIVE RangeInClips_Touching(_, _, _, _, _)
\* a clip that ends where the range starts is taken as overlapping it
RangeInClips_Touching(track, i, start, end, result) ==
  IF i > Len(track.clips) THEN result
  ELSE LET clip       == track.clips[i]
           clip_start == clip.start_time
           clip_end   == FAdd(clip.start_time, clip.duration)
       IN RangeInClips_Touching(track, i + 1, start, end,
            IF clip_end >= start /\ clip_start < end
            THEN Append(result, ActiveClip(track, clip))
            ELSE result)

RECURSIVE RangeInClips(_, _, _, _, _)
\* the loop over the clips of one track, from index i on
RangeInClips(track, i, start, end, result) ==
  IF i > Len(track.clips) THEN result
  ELSE LET clip       == track.clips[i]
           clip_start == clip.start_time
           clip_end   == FAdd(clip.start_time, clip.duration)
       IN RangeInClips(track, i + 1, start, end,
            IF clip_end > start /\ clip_start < end
            THEN Append(result, ActiveClip(track, clip))
            ELSE result)

RECURSIVE RangeInTracks(_, _, _, _, _)
\* the loop over the tracks, from index k on
RangeInTracks(tracks, k, start, end, result) ==
  IF k > Len(tracks) THEN result
  ELSE RangeInTracks(tracks, k + 1, start, end, RangeInClips(tracks[k], 1, start, end, result))

\* Timeline::clips_in_range
clips_in_range(tl, start, end) == RangeInTracks(tl.tracks, 1, start, end, <<>>)

\* every clip of the first track with the id is wrapped as a video clip
clips_on_track_AllVideo(tl, track_id) ==
  LET hit == {k \in 1 .. Len(tl.tracks) : tl.tracks[k].id = track_id}
  IN IF hit = {} THEN None
     ELSE LET track == tl.tracks[CHOOSE k \in hit : \A j \in hit : k <= j]
          IN Some([i \in 1 .. Len(track.clips) |->
                     [variant |-> "Video", clip |-> track.clips[i]]])

RECURSIVE FindTrack(_, _, _)
\* tracks.iter().find(..): the index of the first track from index k on that
\* has the id, 0 when there is none
FindTrack(tracks, k, track_id) ==
  IF k > Len(tracks) THEN 0
  ELSE IF tracks[k].id = track_id THEN k
  ELSE FindTrack(tracks, k + 1, track_id)

\* Timeline::clips_on_track: None, or Some(the clips of the track found)
clips_on_track(tl, track_id) ==
  LET k == FindTrack(tl.tracks, 1, track_id)
  IN IF k = 0 THEN None
     ELSE Some([i \in 1 .. Len(tl.tracks[k].clips) |->
                  ActiveClip(tl.tracks[k], tl.tracks[k].clips[i])])

---------------------------------------------------------------------------
(* The TimelineRenderer and its frame cache *)

\* the size and the frame rate of the preview that main asks for
PreviewWidth == 640

PreviewHeight == 360

PreviewFrameRate == 30

\* a product of u32 values; the products of the sizes of the model stay far
\* below 2^32, so none of them wraps
MulU32(a, b) == a * b

\* a product of two f64 values, the second one a whole number
FMul(a, b) == Round(a * b)

\* an f64 (in quanta) cast with "as u64": the fraction is dropped and a
\* negative value gives 0; the times of the model stay far below the u64
\* range, where the cast would give the largest u64
AsU64(x) == IF x < 0 THEN 0 ELSE x \div (2 ^ FracBits)

\* HashMap::new()
EmptyCache == [k \in {} |-> None]

\* the value is stored under the key that follows
Insert_UnderNextKey(map, key, value) ==
  [k \in DOMAIN map \cup {key + 1} |-> IF k = key + 1 THEN value ELSE map[k]]

\* HashMap::insert
Insert(map, key, value) ==
  [k \in DOMAIN map \cup {key} |-> IF k = key THEN value ELSE map[k]]

\* TimelineRenderer::new
NewRenderer(width, height, frame_rate) ==
  [width |-> width, height |-> height, frame_rate |-> frame_rate,
   frame_cache |-> EmptyCache]

\* vec![0u8; n]
Zeros(n) == [len |-> n, fill |-> "zeros"]

\* what decode_video_frame can return for a request: the RGBA pixels of the
\* frame in the size asked for, a buffer of another length, or None
DecodeOutcomes == {"frame", "other_length", "none"}

decode_video_frame(path, timestamp, width, height, outcome) ==
  IF outcome = "frame"
  THEN Some([len |-> width * height * 4, fill |-> <<path, timestamp>>])
  ELSE IF outcome = "other_length"
  THEN Some([len |-> width * height * 3, fill |-> <<path, timestamp>>])
  ELSE None

\* the first active clip is taken, video or audio
FindVideo_AnyVariant(active_clips, i) ==
  IF i > Len(active_clips) THEN 0 ELSE i

RECURSIVE FindVideo(_, _)
\* active_clips.iter().find(|c| matches!(c, ActiveClip::Video(_))): the index
\* of the first video clip from index i on, 0 when there is none
FindVideo(active_clips, i) ==
  IF i > Len(active_clips) THEN 0
  ELSE IF active_clips[i].variant = "Video" THEN i
  ELSE FindVideo(active_clips, i + 1)

\* the request made to the decoder
DecodeRequest(clip, time, r) ==
  [path |-> clip.asset_path,
   timestamp |-> FAdd(FSub(time, clip.start_time), clip.in_point),
   width |-> r.width, height |-> r.height]

\* the decoded frame is copied whatever its length is
Composited_AnyLength(blank, decoded) ==
  IF decoded # None THEN decoded[1] ELSE blank

\* step 3 of render_frame: the zero-filled buffer, overwritten by the decoded
\* frame when there is one and it has the buffer's length
Composited(blank, decoded) ==
  IF decoded # None /\ decoded[1].len = blank.len THEN decoded[1] ELSE blank

\* the first active video clip, found at index v of the active clips, gives
\* the decode request; there is none when v is 0
RequestFor(active_clips, v, time, r) ==
  IF v = 0 THEN None ELSE Some(DecodeRequest(active_clips[v].clip, time, r))

\* the answer of the decoder to the request, None when nothing is asked
Decoded(request, outcome) ==
  IF request = None THEN None
  ELSE decode_video_frame(request[1].path, request[1].timestamp,
                          request[1].width, request[1].height, outcome)

\* step 4 of render_frame: the frame is stored in the cache and returned
Stored(r, request, output) ==
  [renderer |-> [r EXCEPT !.frame_cache = Insert(@, output.frame_number, output)],
   ret |-> output, decode |-> request, read_timeline |-> TRUE]

\* the frame carries the time at which its frame interval begins
Composite_TimeOfFrameStart(r, time, outcome, frame_number, request) ==
  Stored(r, request,
         [data |-> Composited(Zeros(MulU32(MulU32(r.width, r.height), 4)),
                              Decoded(request, outcome)),
          width |-> r.width, height |-> r.height,
          timestamp |-> Sec(frame_number) \div r.frame_rate,
          frame_number |-> frame_number])

\* step 3 of render_frame, from the decode request on: the frame built
Composite(r, time, outcome, frame_number, request) ==
  Stored(r, request,
         [data |-> Composited(Zeros(MulU32(MulU32(r.width, r.height), 4)),
                              Decoded(request, outcome)),
          width |-> r.width, height |-> r.height,
          timestamp |-> time, frame_number |-> frame_number])

\* the decode request for the first video clip among the active clips
FirstVideoRequest(active_clips, time, r) ==
  RequestFor(active_clips, FindVideo(active_clips, 1), time, r)

\* steps 2 to 4 of render_frame, taken when the cache has no frame of the
\* number: the timeline is locked and read, the first active video clip is
\* decoded, and the frame is stored in the cache
RenderMiss(r, tl, time, outcome, frame_number) ==
  Composite(r, time, outcome, frame_number,
            FirstVideoRequest(active_clips_at(tl, time), time, r))

\* the cache is not looked at: every call renders
render_frame_NoCacheLookup(r, tl, time, outcome) ==
  RenderMiss(r, tl, time, outcome, AsU64(FMul(time, r.frame_rate)))

\* step 1 of render_frame: the frame of the cache when it has the number
Lookup(r, tl, time, outcome, frame_number) ==
  IF frame_number \in DOMAIN r.frame_cache
  THEN [renderer |-> r, ret |-> r.frame_cache[frame_number],
        decode |-> None, read_timeline |-> FALSE]
  ELSE RenderMiss(r, tl, time, outcome, frame_number)

\* TimelineRenderer::render_frame, the decoder answering with outcome: the
\* renderer afterwards, the frame returned, the decode request made (None
\* when there was none) and whether the timeline was locked and read
render_frame(r, tl, time, outcome) ==
  Lookup(r, tl, time, outcome, AsU64(FMul(time, r.frame_rate)))

\* the cache is left as it is
clear_cache_KeepsFrames(r) == r

\* TimelineRenderer::clear_cache
clear_cache(r) == [r EXCEPT !.frame_cache = EmptyCache]

---------------------------------------------------------------------------
(* The TimelinePlayerBridge *)

\* f64::max
FMax(a, b) == IF a >= b THEN a ELSE b

\* the upper bound is not applied
Clamp_LowerOnly(x, min, max) == IF x < min THEN min ELSE x

\* f64::clamp
Clamp(x, min, max) == IF x < min THEN min ELSE IF x > max THEN max ELSE x

\* Timeline::new(): no tracks and a duration of 0.0
NewTimeline ==
  [tracks |-> <<>>, duration |-> 0, frame_rate |-> 30, resolution |-> <<1920, 1080>>]

\* PlaybackState::new()
NewPlaybackState ==
  [playhead |-> 0, is_playing |-> FALSE, loop_start |-> None, loop_end |-> None,
   volume |-> 1, playback_rate |-> 1]

\* TimelinePlayerBridge::new, Instant::now() being instant
NewBridge(playback_state, instant) ==
  [playback_state |-> playback_state, last_update |-> instant, video_buffer |-> <<>>]

\* the frame rendered is pushed and the buffer is not cleared first
Buffered_NotCleared(b, instant, playhead, rf) ==
  [bridge |-> [b EXCEPT !.playback_state.playhead = playhead,
                        !.last_update = instant,
                        !.video_buffer = Append(@, rf.ret)],
   renderer |-> rf.renderer,
   rendering |-> rf]

\* the end of update: the frame rendered replaces the buffer
Buffered(b, instant, playhead, rf) ==
  [bridge |-> [b EXCEPT !.playback_state.playhead = playhead,
                        !.last_update = instant,
                        !.video_buffer = <<rf.ret>>],
   renderer |-> rf.renderer,
   rendering |-> rf]

\* the playhead of update before it is clamped
Advanced(b, instant) ==
  IF b.playback_state.is_playing
  THEN FAdd(b.playback_state.playhead,
            FMul(Round(instant - b.last_update), b.playback_state.playback_rate))
  ELSE b.playback_state.playhead

\* update once the playhead is clamped: the frame at the playhead is rendered
RenderAt(b, r, tl, instant, outcome, playhead) ==
  Buffered(b, instant, playhead, render_frame(r, tl, playhead, outcome))

\* TimelinePlayerBridge::update, Instant::now() being instant and the decoder
\* answering with outcome: the bridge and the renderer afterwards, and what
\* render_frame did
update(b, r, tl, instant, outcome) ==
  RenderAt(b, r, tl, instant, outcome,
           Clamp(Advanced(b, instant), 0, FMax(tl.duration, Sec(1))))

\* TimelinePlayerBridge::seek
seek(b, r, tl, time, instant, outcome) ==
  update([b EXCEPT !.playback_state.playhead = Clamp(time, 0, FMax(tl.duration, Sec(1)))],
         r, tl, instant, outcome)

\* last_update is left as it was
play_KeepsLastUpdate(b, instant) == [b EXCEPT !.playback_state.is_playing = TRUE]

\* TimelinePlayerBridge::play
play(b, instant) ==
  [b EXCEPT !.playback_state.is_playing = TRUE, !.last_update = instant]

\* TimelinePlayerBridge::pause
pause(b) == [b EXCEPT !.playback_state.is_playing = FALSE]

\* TimelinePlayerBridge::current_frame
current_frame(b) ==
  IF b.video_buffer = <<>> THEN None ELSE Some(b.video_buffer[Len(b.video_buffer)])

---------------------------------------------------------------------------
(* The MediaLibrary *)

\* MediaLibrary::new()
NewMediaLibrary == [items |-> <<>>]

\* Path::file_name of a path given as directory, stem and extension
FileName(path) == <<path.stem, ".", path.ext>>

\* the mime type add_file infers from the extension
MimeType(ext) ==
  IF ext \in {"mp3", "wav", "ogg", "flac"} THEN "audio"
  ELSE IF ext \in {"mp4", "mov", "mkv", "webm", "avi"} THEN "video"
  ELSE "unknown"

\* FileDescriptor::new
NewFileDescriptor(file_name, path, size, mime_type) ==
  [file_name |-> file_name, path |-> path, size |-> size, mime_type |-> mime_type]

\* MediaLibrary::add_audio
add_audio(lib, prop) ==
  [lib EXCEPT !.items = Append(@, [item |-> "AudioItem",
                                   file_descriptor |-> prop.file_descriptor])]

\* MediaLibrary::add_video
add_video(lib, prop) ==
  [lib EXCEPT !.items = Append(@, [item |-> "VideoItem",
                                   file_descriptor |-> prop.file_descriptor,
                                   thumbnail_path |-> prop.thumbnail_path])]

\* add_file once the descriptor is made: audio and video files are added,
\* other files are ignored; thumbnail is TRUE when the thumbnail was written
AddDescribed(lib, fd, thumbnail) ==
  IF fd.mime_type = "audio" THEN add_audio(lib, [file_descriptor |-> fd])
  ELSE IF fd.mime_type = "video"
       THEN add_video(lib, [file_descriptor |-> fd,
                            thumbnail_path |-> IF thumbnail
                                               THEN Some(<<fd.path, ".thumb.jpg">>)
                                               ELSE None])
       ELSE lib

\* MediaLibrary::add_file, size being what fs::metadata gives (0 when it
\* fails)
add_file(lib, path, size, thumbnail) ==
  AddDescribed(lib, NewFileDescriptor(FileName(path), path, size, MimeType(path.ext)),
               thumbnail)

RECURSIVE Position(_, _, _)
\* Iterator::position over the items: the index of the first item of the
\* file name from index i on, 0 when there is none
Position(items, i, name) ==
  IF i > Len(items) THEN 0
  ELSE IF items[i].file_descriptor.file_name = name THEN i
       ELSE Position(items, i + 1, name)

\* MediaLibrary::find_by_filename
find_by_filename(lib, name) ==
  IF Position(lib.items, 1, name) = 0 THEN None
  ELSE Some(lib.items[Position(lib.items, 1, name)])

\* Vec::remove
Remove(items, idx) ==
  [k \in 1 .. Len(items) - 1 |-> IF k < idx THEN items[k] ELSE items[k + 1]]

\* the item found at idx is removed and returned, none when idx is 0
RemoveAt(lib, idx) ==
  IF idx = 0 THEN [library |-> lib, ret |-> None]
  ELSE [library |-> [lib EXCEPT !.items = Remove(@, idx)], ret |-> Some(lib.items[idx])]

\* MediaLibrary::remove_by_filename: the library afterwards and the item
\* returned
remove_by_filename(lib, name) == RemoveAt(lib, Position(lib.items, 1, name))

---------------------------------------------------------------------------
(* Inputs of the model *)

\* times a media item is dropped at: x_to_time(..).max(0.0)
DropTimes == {0, Big - 1}

\* what get_video_duration returns: None, or Some(whole seconds)
VideoDurations == {None, Some(Sec(0)), Some(Sec(10))}

\* SystemTime::now() in milliseconds, as printed into a clip id
Millis == {"1000"}

\* the media items of the library that are dragged onto the timeline
MediaItems == {[item |-> "VideoItem", path |-> "video.mp4"],
               [item |-> "AudioItem", path |-> "audio.wav"]}

\* playheads a split is asked at
Playheads == {0, Sec(2), Sec(5), Big + 2}

\* times active_clips_at is asked about
QueryTimes == {0, Sec(2), Sec(5), Big - 1}

\* bounds of the ranges clips_in_range is asked about; the last one lies
\* beyond the end of the timeline
RangeBounds == {0 - Sec(1), 0, Sec(2), Sec(5), Sec(700)}

\* the clips cut_clip_at is tried on, consistent (out_point - in_point =
\* duration) and retimed ones, video and audio
CutClips ==
  { [id |-> <<IF md = VideoMetadata THEN "vc1" ELSE "ac1">>,
     asset_path |-> IF md = VideoMetadata THEN "video.mp4" ELSE "audio.wav",
     in_point |-> i, out_point |-> Round(i + d + x), start_time |-> s,
     duration |-> d, metadata |-> md] :
      <<md, s, d, i, x>> \in {VideoMetadata, AudioMetadata}
                              \X {0, 1, Sec(2), Big - 1}
                              \X {Sec(10), Sec(8), 3, Big + 8}
                              \X {0, 1, Sec(4)}
                              \X {0, Sec(1)} }

\* the playheads cut_clip_at is tried at
CutPlayheads ==
  {0 - Sec(1), 0, 1, Sec(2), Sec(4), Sec(6), Sec(10), Sec(12), Big, Big + 2, Big + 6}

\* the timeline times a source timestamp is computed for
CutTimes == {0, 1, Sec(2), Sec(3), Sec(5), Sec(9), Big - 1, Big, Big + 4, Big + 8}

\* track ids a split is asked for: those the widget can give, and one no track has
TrackIds == {<<"track", 1>>, <<"track_", 1>>, <<"track_", 2>>, <<"vt1", 0>>}

---------------------------------------------------------------------------
(* The timeline widget and the operations of the Timeline *)

RECURSIVE TotalClips(_, _)
\* the number of clips on the tracks from index k on
TotalClips(tracks, k) ==
  IF k > Len(tracks) THEN 0 ELSE Len(tracks[k].clips) + TotalClips(tracks, k + 1)

NoOp == [name |-> "none"]

NoCut == [clip |-> None, playhead |-> 0]

\* lastCalls when the last call on the bridge was an update or a seek, or
\* there was none: otherwise paused is the instant of the last pause() since
\* then and played the instant of the last play() after it
NoCalls == [paused |-> None, played |-> None]

\* no thread is inside the write block of CutioApp::update or inside
\* render_frame
NoThreads == [ui |-> [pc |-> "idle"], render |-> [pc |-> "idle"]]

\* the playback state of AppState as main makes it, PlaybackState::new(), and
\* the two thread locals named LAST_PLAY_TIME, the one declared in
\* CutioApp::update and the one declared in reset_last_play_time, both None
\* at first; clock is Instant::now() in milliseconds and the playhead is in
\* milliseconds too
NewApp ==
  [playback_state |-> [playhead |-> 0, is_playing |-> FALSE, playback_rate |-> 1],
   last_play_time |-> None,
   reset_last_play_time |-> None,
   clock |-> 0]

\* no call of pull_sample_with_timeout is under way
NoPull == [pc |-> "idle", sink |-> "empty", elapsed |-> 0, ret |-> None]

\* "+ Add Track": a new empty video track
AddTrack ==
  /\ ~crashed
  /\ op = NoOp
  /\ Len(timeline.tracks) < MaxTracks
  /\ timeline' = [timeline EXCEPT !.tracks = Append(@,
        [kind |-> "Video",
         id |-> <<"track", Len(timeline.tracks) + 1>>,
         name |-> <<"Video Track ", Len(timeline.tracks) + 1>>,
         clips |-> <<>>,
         muted |-> FALSE])]
  /\ op' = [name |-> "add_track"]
  /\ UNCHANGED <<crashed, cutIn>>
  /\ UNCHANGED rvars

\* the clip made from a dropped video item
DroppedVideoClip(media, ms, drop_time, duration) ==
  [id |-> <<"clip_", ms>>, asset_path |-> media.path, in_point |-> 0,
   out_point |-> duration, start_time |-> drop_time, duration |-> duration,
   metadata |-> DroppedVideoMetadata]

\* the clip made from a dropped audio item
DroppedAudioClip(media, ms, drop_time) ==
  [id |-> <<"clip_", ms>>, asset_path |-> media.path, in_point |-> 0,
   out_point |-> Sec(DroppedAudioSeconds), start_time |-> drop_time,
   duration |-> Sec(DroppedAudioSeconds), metadata |-> DroppedAudioMetadata]

\* a video item dropped at drop_time on the track of index drop_track_idx
\* (counted from 0); probed is what get_video_duration returns for it
DropVideo(media, drop_time, drop_track_idx, ms, probed) ==
  LET n     == Len(timeline.tracks)
      onto  == drop_track_idx < n /\ timeline.tracks[drop_track_idx + 1].kind = "Video"
  IN IF onto
     THEN /\ TotalClips(timeline.tracks, 1) < MaxClips
          /\ IF probed = None
             THEN \* get_video_duration(&asset_path).unwrap() panics
                  /\ crashed' = TRUE
                  /\ timeline' = timeline
                  /\ op' = [name |-> "drop_panic"]
             ELSE /\ timeline' = [timeline EXCEPT !.tracks[drop_track_idx + 1].clips =
                        Append(@, DroppedVideoClip(media, ms, drop_time, probed[1]))]
                  /\ crashed' = crashed
                  /\ op' = [name |-> "drop_video"]
     ELSE /\ n < MaxTracks
          /\ TotalClips(timeline.tracks, 1) < MaxClips
          /\ timeline' = [timeline EXCEPT !.tracks = Append(@,
                [kind |-> "Video",
                 id |-> <<"track_", n + 1>>,
                 name |-> <<"Video Track ", n + 1>>,
                 clips |-> IF probed # None /\ probed[1] > 0
                           THEN <<DroppedVideoClip(media, ms, drop_time, probed[1])>>
                           ELSE <<>>,
                 muted |-> FALSE])]
          /\ crashed' = crashed
          /\ op' = [name |-> "drop_video_new_track"]

\* an audio item dropped at drop_time on the track of index drop_track_idx
DropAudio(media, drop_time, drop_track_idx, ms) ==
  LET n     == Len(timeline.tracks)
      onto  == drop_track_idx < n /\ timeline.tracks[drop_track_idx + 1].kind = "Audio"
  IN IF onto
     THEN /\ TotalClips(timeline.tracks, 1) < MaxClips
          /\ timeline' = [timeline EXCEPT !.tracks[drop_track_idx + 1].clips =
                Append(@, DroppedAudioClip(media, ms, drop_time))]
          /\ op' = [name |-> "drop_audio"]
     ELSE /\ n < MaxTracks
          /\ TotalClips(timeline.tracks, 1) < MaxClips
          /\ timeline' = [timeline EXCEPT !.tracks = Append(@,
                [kind |-> "Audio",
                 id |-> <<"track_", n + 1>>,
                 name |-> <<"Audio Track ", n + 1>>,
                 clips |-> <<DroppedAudioClip(media, ms, drop_time)>>,
                 muted |-> FALSE])]
          /\ op' = [name |-> "drop_audio_new_track"]

\* TimelineWidget::show, "Handle dropped media"
DropMedia ==
  /\ ~crashed
  /\ op = NoOp
  /\ \E media \in MediaItems, drop_time \in DropTimes,
        drop_track_idx \in 0 .. MaxTracks, ms \in Millis :
       IF media.item = "VideoItem"
       THEN \E probed \in VideoDurations :
              DropVideo(media, drop_time, drop_track_idx, ms, probed)
       ELSE DropAudio(media, drop_time, drop_track_idx, ms) /\ crashed' = crashed
  /\ UNCHANGED cutIn
  /\ UNCHANGED rvars

\* a call of Timeline::split_clip_at_playhead
SplitClipAtPlayhead ==
  /\ ~crashed
  /\ op = NoOp
  /\ \E track_id \in TrackIds, playhead \in Playheads :
       LET r == split_clip_at_playhead(timeline, track_id, playhead)
       IN /\ TotalClips(r[1].tracks, 1) <= MaxClips
          /\ timeline' = r[1]
          /\ op' = [name |-> "split_clip_at_playhead", track_id |-> track_id,
                    playhead |-> playhead, ret |-> r[2], before |-> timeline]
  /\ UNCHANGED <<crashed, cutIn>>
  /\ UNCHANGED rvars

\* a call of Timeline::active_clips_at
ActiveClipsAt ==
  /\ ~crashed
  /\ op = NoOp
  /\ \E time \in QueryTimes :
       op' = [name |-> "active_clips_at", time |-> time,
              ret |-> active_clips_at(timeline, time)]
  /\ UNCHANGED <<timeline, crashed, cutIn>>
  /\ UNCHANGED rvars

\* a call of Timeline::clips_in_range
ClipsInRange ==
  /\ ~crashed
  /\ op = NoOp
  /\ \E start \in RangeBounds, end \in RangeBounds :
       op' = [name |-> "clips_in_range", start |-> start, end |-> end,
              ret |-> clips_in_range(timeline, start, end)]
  /\ UNCHANGED <<timeline, crashed, cutIn>>
  /\ UNCHANGED rvars

\* a call of Timeline::clips_on_track
ClipsOnTrack ==
  /\ ~crashed
  /\ op = NoOp
  /\ \E track_id \in TrackIds :
       op' = [name |-> "clips_on_track", track_id |-> track_id,
              ret |-> clips_on_track(timeline, track_id), before |-> timeline]
  /\ UNCHANGED <<timeline, crashed, cutIn>>
  /\ UNCHANGED rvars

\* the caller lets go of what the last call returned; the program is single
\* threaded, so the next call starts after that
ResultDropped ==
  /\ op # NoOp
  /\ op' = NoOp
  /\ UNCHANGED <<timeline, crashed, cutIn>>
  /\ UNCHANGED rvars

Init ==
  /\ timeline = MainTimeline
  /\ crashed = FALSE
  /\ op = NoOp
  /\ cutIn = NoCut
  /\ renderer = NewRenderer(PreviewWidth, PreviewHeight, PreviewFrameRate)
  /\ rendered = {}
  /\ cleared = {}
  /\ bridge = NewBridge(NewPlaybackState, 0)
  /\ now = 0
  /\ lastCalls = NoCalls
  /\ pull = NoPull
  /\ library = NewMediaLibrary
  /\ threads = NoThreads
  /\ app = NewApp

Next ==
  \/ AddTrack
  \/ DropMedia
  \/ SplitClipAtPlayhead
  \/ ActiveClipsAt
  \/ ClipsInRange
  \/ ClipsOnTrack
  \/ ResultDropped

Spec == Init /\ [][Next]_vars

---------------------------------------------------------------------------
(* cut_clip_at and split_clip_at_playhead on one clip, as the unit tests   *)
(* of clip_ops.rs and timeline.rs call them                                *)

\* the timeline the tests build around one clip: one track holding it
TestTimeline(clip) ==
  [tracks |-> << [kind |-> IF clip.metadata = VideoMetadata THEN "Video" ELSE "Audio",
                  id |-> <<"vt1", 0>>,
                  name |-> <<"Track ", 1>>,
                  clips |-> <<clip>>,
                  muted |-> FALSE] >>,
   duration |-> Sec(10), frame_rate |-> 30, resolution |-> <<1920, 1080>>]

InitCut ==
  /\ cutIn \in [clip : CutClips, playhead : CutPlayheads]
  /\ timeline = TestTimeline(cutIn.clip)
  /\ crashed = FALSE
  /\ op = NoOp
  /\ renderer = NewRenderer(PreviewWidth, PreviewHeight, PreviewFrameRate)
  /\ rendered = {}
  /\ cleared = {}
  /\ bridge = NewBridge(NewPlaybackState, 0)
  /\ now = 0
  /\ lastCalls = NoCalls
  /\ pull = NoPull
  /\ library = NewMediaLibrary
  /\ threads = NoThreads
  /\ app = NewApp

\* cut_clip_at(&clip, playhead)
CutClipAt ==
  /\ op = NoOp
  /\ op' = [name |-> "cut_clip_at", ret |-> cut_clip_at(cutIn.clip, cutIn.playhead)]
  /\ UNCHANGED <<timeline, crashed, cutIn>>
  /\ UNCHANGED rvars

\* timeline.split_clip_at_playhead("vt1", playhead)
SplitTestTimeline ==
  /\ op = NoOp
  /\ LET r == split_clip_at_playhead(timeline, <<"vt1", 0>>, cutIn.playhead)
     IN /\ timeline' = r[1]
        /\ op' = [name |-> "split_clip_at_playhead", track_id |-> <<"vt1", 0>>,
                  playhead |-> cutIn.playhead, ret |-> r[2], before |-> timeline]
  /\ UNCHANGED <<crashed, cutIn>>
  /\ UNCHANGED rvars

NextCut ==
  \/ CutClipAt
  \/ SplitTestTimeline

SpecCut == InitCut /\ [][NextCut]_vars

---------------------------------------------------------------------------
(* A TimelineRenderer over the timeline that the widget edits.  rendered    *)
(* is the record of the frames render_frame has built since the last        *)
(* clear_cache, each with the decode request made for it; cleared is the    *)
(* record of the frames that the last clear_cache dropped from the cache:   *)
(* their numbers and times and the decode requests made for them.           *)

\* the times a frame is asked for
RenderTimes == {0 - 1, 0, Sec(2)}

\* a call of TimelineRenderer::render_frame
RenderFrame ==
  /\ ~crashed
  /\ op = NoOp
  /\ \E time \in RenderTimes, outcome \in DecodeOutcomes :
       \E rf \in {render_frame(renderer, timeline, time, outcome)} :
          /\ renderer' = rf.renderer
          /\ rendered' = IF rf.read_timeline
                         THEN rendered \cup {[frame |-> rf.ret, decode |-> rf.decode]}
                         ELSE rendered
          /\ op' = [name |-> "render_frame", time |-> time, ret |-> rf.ret,
                    decode |-> rf.decode, read_timeline |-> rf.read_timeline,
                    answer |-> IF rf.decode = None THEN "not asked" ELSE outcome,
                    earlier |-> rendered, before |-> renderer]
  /\ UNCHANGED <<timeline, crashed, cutIn, cleared, bridge, now, lastCalls>>
  /\ UNCHANGED ovars

\* a call of TimelineRenderer::clear_cache
ClearCache ==
  /\ ~crashed
  /\ op = NoOp
  /\ renderer' = clear_cache(renderer)
  /\ rendered' = {}
  /\ cleared' = {[frame_number |-> e.frame.frame_number, timestamp |-> e.frame.timestamp,
                   decode |-> e.decode] : e \in rendered}
  /\ op' = [name |-> "clear_cache"]
  /\ UNCHANGED <<timeline, crashed, cutIn, bridge, now, lastCalls>>
  /\ UNCHANGED ovars

\* a timeline as Project::load_from_file may give it: two video tracks whose
\* clips overlap from 2.0 to 10.0 seconds
LoadedTimeline ==
  [tracks |-> << [kind |-> "Video", id |-> <<"track_", 1>>,
                  name |-> <<"Video Track ", 1>>,
                  clips |-> << [id |-> <<"clip_", "intro">>, asset_path |-> "intro.mp4",
                                in_point |-> Sec(1), out_point |-> Sec(11),
                                start_time |-> Sec(2), duration |-> Sec(10),
                                metadata |-> VideoMetadata] >>,
                  muted |-> FALSE],
                 [kind |-> "Video", id |-> <<"track_", 2>>,
                  name |-> <<"Video Track ", 2>>,
                  clips |-> << [id |-> <<"clip_", "main">>, asset_path |-> "video.mp4",
                                in_point |-> 0, out_point |-> Sec(10),
                                start_time |-> 0, duration |-> Sec(10),
                                metadata |-> VideoMetadata] >>,
                  muted |-> FALSE] >>,
   duration |-> Sec(MainTimelineSeconds), frame_rate |-> 30, resolution |-> <<1920, 1080>>]

InitRender ==
  /\ timeline \in {MainTimeline, LoadedTimeline}
  /\ crashed = FALSE
  /\ op = NoOp
  /\ cutIn = NoCut
  /\ renderer = NewRenderer(PreviewWidth, PreviewHeight, PreviewFrameRate)
  /\ rendered = {}
  /\ cleared = {}
  /\ bridge = NewBridge(NewPlaybackState, 0)
  /\ now = 0
  /\ lastCalls = NoCalls
  /\ pull = NoPull
  /\ library = NewMediaLibrary
  /\ threads = NoThreads
  /\ app = NewApp

\* the edit leaves the timeline within the bound of the model
WithinRenderBound == TotalClips(timeline'.tracks, 1) <= MaxRenderClips

NextRender ==
  \/ AddTrack
  \/ DropMedia /\ WithinRenderBound
  \/ SplitClipAtPlayhead /\ WithinRenderBound
  \/ RenderFrame
  \/ ClearCache
  \/ ResultDropped

SpecRender == InitRender /\ [][NextRender]_vars

---------------------------------------------------------------------------
(* A TimelinePlayerBridge over a timeline and its renderer, driven by the   *)
(* calls of its user while the wall clock advances.                         *)

\* the timelines the bridge is made for: Timeline::new(), of duration 0.0,
\* and the timeline of main, of duration 600.0
PlayTimelines == {NewTimeline, MainTimeline}

\* the playback states the bridge is made with: PlaybackState::new() and
\* states whose public fields playhead and playback_rate were set
PlaybackStates ==
  {[NewPlaybackState EXCEPT !.playhead = p, !.playback_rate = rate] :
     p \in {0 - Sec(1), 0, Sec(700)}, rate \in {1, 2}}

\* the readings of Instant::now(), from the making of the bridge on: half a
\* second later, and minutes later
Instants == {0, Sec(1) \div 2, Sec(400), Sec(800)}

\* the times seek is called with
SeekTimes == {0 - Sec(5), Sec(2), Sec(700)}

\* the record of a rendering made by update
Rendered(rf) ==
  IF rf.read_timeline
  THEN rendered \cup {[frame |-> rf.ret, decode |-> rf.decode]}
  ELSE rendered

\* a call of TimelinePlayerBridge::update
Update ==
  /\ op = NoOp
  /\ \E outcome \in DecodeOutcomes :
       \E u \in {update(bridge, renderer, timeline, now, outcome)} :
          /\ bridge' = u.bridge
          /\ renderer' = u.renderer
          /\ rendered' = Rendered(u.rendering)
          /\ op' = [name |-> "update", before |-> bridge, instant |-> now,
                    calls |-> lastCalls, frame |-> u.rendering.ret]
          /\ lastCalls' = NoCalls
  /\ UNCHANGED <<timeline, crashed, cutIn, cleared, now>>
  /\ UNCHANGED ovars

\* a call of TimelinePlayerBridge::seek
Seek ==
  /\ op = NoOp
  /\ \E time \in SeekTimes, outcome \in DecodeOutcomes :
       \E u \in {seek(bridge, renderer, timeline, time, now, outcome)} :
          /\ bridge' = u.bridge
          /\ renderer' = u.renderer
          /\ rendered' = Rendered(u.rendering)
          /\ op' = [name |-> "seek", time |-> time, before |-> bridge, instant |-> now,
                    frame |-> u.rendering.ret]
          /\ lastCalls' = NoCalls
  /\ UNCHANGED <<timeline, crashed, cutIn, cleared, now>>
  /\ UNCHANGED ovars

\* a call of TimelinePlayerBridge::play
Play ==
  /\ op = NoOp
  /\ bridge' = play(bridge, now)
  /\ op' = [name |-> "play", before |-> bridge, instant |-> now]
  /\ lastCalls' = [lastCalls EXCEPT !.played = Some(now)]
  /\ UNCHANGED <<timeline, crashed, cutIn, renderer, rendered, cleared, now>>
  /\ UNCHANGED ovars

\* a call of TimelinePlayerBridge::pause
Pause ==
  /\ op = NoOp
  /\ bridge' = pause(bridge)
  /\ op' = [name |-> "pause", before |-> bridge, instant |-> now]
  /\ lastCalls' = [paused |-> Some(now), played |-> None]
  /\ UNCHANGED <<timeline, crashed, cutIn, renderer, rendered, cleared, now>>
  /\ UNCHANGED ovars

\* a call of TimelinePlayerBridge::current_frame
CurrentFrame ==
  /\ op = NoOp
  /\ op' = [name |-> "current_frame", ret |-> current_frame(bridge)]
  /\ UNCHANGED <<timeline, crashed, cutIn, pvars, ovars>>

\* wall time passes between two calls
WallClock ==
  /\ op = NoOp
  /\ \E instant \in Instants :
       /\ instant > now
       /\ now' = instant
  /\ UNCHANGED <<timeline, crashed, op, cutIn, renderer, rendered, cleared, bridge,
               lastCalls>>
  /\ UNCHANGED ovars

InitPlay ==
  /\ timeline \in PlayTimelines
  /\ crashed = FALSE
  /\ op = NoOp
  /\ cutIn = NoCut
  /\ renderer = NewRenderer(PreviewWidth, PreviewHeight, PreviewFrameRate)
  /\ rendered = {}
  /\ cleared = {}
  /\ now = 0
  /\ lastCalls = NoCalls
  /\ pull = NoPull
  /\ library = NewMediaLibrary
  /\ threads = NoThreads
  /\ app = NewApp
  /\ \E playback_state \in PlaybackStates : bridge = NewBridge(playback_state, now)

NextPlay ==
  \/ Update
  \/ Seek
  \/ Play
  \/ Pause
  \/ CurrentFrame
  \/ WallClock
  \/ ResultDropped

SpecPlay == InitPlay /\ [][NextPlay]_vars

---------------------------------------------------------------------------
(* TimelineRenderer::pull_sample_with_timeout, step by step, with the       *)
(* appsink it pulls from.  AppSink::pull_sample is a blocking call: it      *)
(* returns a sample when the sink has one, an error when the sink is at     *)
(* end of stream or stopped, and otherwise waits until one of the two       *)
(* happens.  pull.elapsed is start_time.elapsed() in milliseconds.          *)

\* the timeout decode_video_frame passes: Duration::from_secs(5)
PullTimeoutMillis == 5000

\* the sleep between two attempts: Duration::from_millis(10)
PullSleepMillis == 10

\* the wall time the model follows a blocked call for
MaxBlockedMillis == 5100

\* what the appsink holds when the call starts
SinkStates == {"empty", "sample", "eos"}

\* sink.pull_sample() returns: Ok(sample) ends the loop, Err goes on to the
\* check of the timeout; on an empty sink that is not at end of stream the
\* call does not return
PullSampleReturns ==
  /\ pull.pc = "pull_sample"
  /\ pull.sink # "empty"
  /\ pull' = IF pull.sink = "sample"
             THEN [pull EXCEPT !.pc = "returned", !.ret = Some("sample"), !.sink = "empty"]
             ELSE [pull EXCEPT !.pc = "check_elapsed"]
  /\ UNCHANGED <<wvars, pvars, library, threads, app>>

\* wall time passes while the thread is inside sink.pull_sample()
BlockedInPullSample ==
  /\ pull.pc = "pull_sample"
  /\ pull.sink = "empty"
  /\ pull.elapsed < MaxBlockedMillis
  /\ pull' = [pull EXCEPT !.elapsed = @ + PullSleepMillis]
  /\ UNCHANGED <<wvars, pvars, library, threads, app>>

\* if start_time.elapsed() > timeout { return None; }
CheckElapsed ==
  /\ pull.pc = "check_elapsed"
  /\ pull' = IF pull.elapsed > PullTimeoutMillis
             THEN [pull EXCEPT !.pc = "returned", !.ret = None]
             ELSE [pull EXCEPT !.pc = "sleep"]
  /\ UNCHANGED <<wvars, pvars, library, threads, app>>

\* std::thread::sleep(Duration::from_millis(10)): at least 10 ms pass, and
\* the loop starts again
Sleep ==
  /\ pull.pc = "sleep"
  /\ \E slept \in {PullSleepMillis, 2 * PullSleepMillis} :
       pull' = [pull EXCEPT !.pc = "pull_sample", !.elapsed = @ + slept]
  /\ UNCHANGED <<wvars, pvars, library, threads, app>>

\* the decoder delivers a sample to the appsink
SinkDelivers ==
  /\ pull.pc # "returned"
  /\ pull.sink = "empty"
  /\ pull' = [pull EXCEPT !.sink = "sample"]
  /\ UNCHANGED <<wvars, pvars, library, threads, app>>

\* the stream ends, or the pipeline stops with an error
SinkEndsStream ==
  /\ pull.pc # "returned"
  /\ pull.sink = "empty"
  /\ pull' = [pull EXCEPT !.sink = "eos"]
  /\ UNCHANGED <<wvars, pvars, library, threads, app>>

\* decode_video_frame has called pull_sample_with_timeout: start_time is now
\* and the loop is at its first sink.pull_sample()
InitPull ==
  /\ timeline = MainTimeline
  /\ crashed = FALSE
  /\ op = NoOp
  /\ cutIn = NoCut
  /\ renderer = NewRenderer(PreviewWidth, PreviewHeight, PreviewFrameRate)
  /\ rendered = {}
  /\ cleared = {}
  /\ bridge = NewBridge(NewPlaybackState, 0)
  /\ now = 0
  /\ lastCalls = NoCalls
  /\ library = NewMediaLibrary
  /\ threads = NoThreads
  /\ app = NewApp
  /\ \E sink \in SinkStates :
       pull = [pc |-> "pull_sample", sink |-> sink, elapsed |-> 0, ret |-> None]

\* the steps of the thread that runs pull_sample_with_timeout
PullThread == PullSampleReturns \/ CheckElapsed \/ Sleep

NextPull ==
  \/ PullSampleReturns
  \/ BlockedInPullSample
  \/ CheckElapsed
  \/ Sleep
  \/ SinkDelivers
  \/ SinkEndsStream

\* the thread is scheduled whenever it can take a step and the clock runs;
\* nothing makes the decoder deliver
SpecPull == InitPull /\ [][NextPull]_vars /\ WF_vars(PullThread) /\ WF_vars(BlockedInPullSample)

---------------------------------------------------------------------------
(* The media library panel: files are imported and items removed, and the   *)
(* library is looked up by file name.                                       *)

\* the most items the library of the model holds
MaxItems == 3

\* the files add_file is called with: two files of the same name in two
\* directories, an audio file and a file that is neither audio nor video
ImportPaths ==
  {[dir |-> "/a", stem |-> "clip", ext |-> "mp4"],
   [dir |-> "/b", stem |-> "clip", ext |-> "mp4"],
   [dir |-> "/a", stem |-> "song", ext |-> "wav"],
   [dir |-> "/a", stem |-> "notes", ext |-> "txt"]}

\* the file names the library is asked for
FileNames == {<<"clip", ".", "mp4">>, <<"song", ".", "wav">>, <<"movie", ".", "mp4">>}

\* "Import Media": MediaLibrary::add_file on the file picked
AddFile ==
  /\ op = NoOp
  /\ Len(library.items) < MaxItems
  /\ \E path \in ImportPaths, size \in {0, 2048}, thumbnail \in BOOLEAN :
       /\ library' = add_file(library, path, size, thumbnail)
       /\ op' = [name |-> "add_file", path |-> path, before |-> library]
  /\ UNCHANGED <<timeline, crashed, cutIn, pvars, pull, threads, app>>

\* a call of MediaLibrary::find_by_filename
FindByFilename ==
  /\ op = NoOp
  /\ \E name \in FileNames :
       op' = [name |-> "find_by_filename", file_name |-> name,
              ret |-> find_by_filename(library, name)]
  /\ UNCHANGED <<timeline, crashed, cutIn, pvars, pull, library, threads, app>>

\* a call of MediaLibrary::remove_by_filename
RemoveByFilename ==
  /\ op = NoOp
  /\ \E name \in FileNames :
       \E r \in {remove_by_filename(library, name)} :
          /\ library' = r.library
          /\ op' = [name |-> "remove_by_filename", file_name |-> name,
                    ret |-> r.ret, before |-> library]
  /\ UNCHANGED <<timeline, crashed, cutIn, pvars, pull, threads, app>>

InitLib ==
  /\ timeline = MainTimeline
  /\ crashed = FALSE
  /\ op = NoOp
  /\ cutIn = NoCut
  /\ renderer = NewRenderer(PreviewWidth, PreviewHeight, PreviewFrameRate)
  /\ rendered = {}
  /\ cleared = {}
  /\ bridge = NewBridge(NewPlaybackState, 0)
  /\ now = 0
  /\ lastCalls = NoCalls
  /\ pull = NoPull
  /\ library = NewMediaLibrary
  /\ threads = NoThreads
  /\ app = NewApp

NextLib ==
  \/ AddFile
  \/ FindByFilename
  \/ RemoveByFilename
  \/ ResultDropped

SpecLib == InitLib /\ [][NextLib]_vars

---------------------------------------------------------------------------
(* The lock of the shared timeline, Arc<RwLock<Timeline>>: the thread of    *)
(* the user interface splits clips inside the write block of                *)
(* CutioApp::update while another thread runs render_frame.  A split is     *)
(* three steps on the clips of a track: remove(i), insert(i, right) and     *)
(* insert(i, left).                                                         *)

\* the most clips the timeline of this specification holds
MaxLockClips == 4

\* the read guard of render_frame, taken by self.timeline.read() and dropped
\* at the end of the function, is held at these positions
ReadGuardHeld_UntilResolved(pc) == pc = "locked"

ReadGuardHeld(pc) == pc \in {"locked", "resolved", "inserted"}

\* the write guard of CutioApp::update, held for the whole block that shows
\* the TimelineWidget
WriteGuardHeld(pc) == pc \in {"locked", "removed", "right_inserted", "left_inserted"}

\* RwLock::write returns when no guard is held
CanWrite(t) == ~ReadGuardHeld(t.render.pc) /\ ~WriteGuardHeld(t.ui.pc)

\* RwLock::read returns when no write guard is held
CanRead(t) == ~WriteGuardHeld(t.ui.pc)

\* Vec::insert
InsertAt(clips, i, clip) ==
  [k \in 1 .. Len(clips) + 1 |->
     IF k < i THEN clips[k] ELSE IF k = i THEN clip ELSE clips[k - 1]]

\* the index of the track that split_clip_at_playhead changes, target being
\* the timeline it leaves
SplitTrack(tl, target) ==
  CHOOSE k \in 1 .. Len(tl.tracks) : tl.tracks[k] # target.tracks[k]

\* the index of the clip it splits on that track
SplitIndex(clips, split) ==
  CHOOSE i \in 1 .. Len(clips) :
     /\ clips[i] # split[i]
     /\ \A j \in 1 .. i - 1 : clips[j] = split[j]

\* let mut timeline = self.state.timeline.write().unwrap()
UiLocks ==
  /\ threads.ui.pc = "idle"
  /\ CanWrite(threads)
  /\ threads' = [threads EXCEPT !.ui = [pc |-> "locked"]]
  /\ UNCHANGED <<timeline, crashed, op, cutIn, pvars, pull, library, app>>

\* split_clip_at_playhead up to clips.remove(i)
UiSplitRemoves ==
  /\ threads.ui.pc = "locked"
  /\ TotalClips(timeline.tracks, 1) < MaxLockClips
  /\ \E track_id \in TrackIds, playhead \in Playheads :
       \E r \in {split_clip_at_playhead(timeline, track_id, playhead)} :
          /\ r[2]
          /\ \E k \in {SplitTrack(timeline, r[1])} :
               \E i \in {SplitIndex(timeline.tracks[k].clips, r[1].tracks[k].clips)} :
                  \E halves \in {cut_clip_at(timeline.tracks[k].clips[i], playhead)[1]} :
                     /\ timeline' = [timeline EXCEPT !.tracks[k].clips = Remove(@, i)]
                     /\ threads' = [threads EXCEPT !.ui =
                           [pc |-> "removed", k |-> k, i |-> i, left |-> halves[1],
                            right |-> halves[2], target |-> r[1]]]
  /\ UNCHANGED <<crashed, op, cutIn, pvars, pull, library, app>>

\* clips.insert(i, right)
UiSplitInsertsRight ==
  /\ threads.ui.pc = "removed"
  /\ timeline' = [timeline EXCEPT !.tracks[threads.ui.k].clips =
                     InsertAt(@, threads.ui.i, threads.ui.right)]
  /\ threads' = [threads EXCEPT !.ui.pc = "right_inserted"]
  /\ UNCHANGED <<crashed, op, cutIn, pvars, pull, library, app>>

\* clips.insert(i, left); return true
UiSplitInsertsLeft ==
  /\ threads.ui.pc = "right_inserted"
  /\ timeline' = [timeline EXCEPT !.tracks[threads.ui.k].clips =
                     InsertAt(@, threads.ui.i, threads.ui.left)]
  /\ threads' = [threads EXCEPT !.ui.pc = "left_inserted"]
  /\ UNCHANGED <<crashed, op, cutIn, pvars, pull, library, app>>

\* the end of the write block: the guard is dropped
UiUnlocks ==
  /\ threads.ui.pc \in {"locked", "left_inserted"}
  /\ threads' = [threads EXCEPT !.ui = [pc |-> "idle"]]
  /\ UNCHANGED <<timeline, crashed, op, cutIn, pvars, pull, library, app>>

\* render_frame(time) finds no frame of the number in the cache and takes
\* the read guard; seen is the timeline at that moment
RenderLocks ==
  /\ threads.render.pc = "idle"
  /\ CanRead(threads)
  /\ \E time \in RenderTimes :
       /\ AsU64(FMul(time, renderer.frame_rate)) \notin DOMAIN renderer.frame_cache
       /\ threads' = [threads EXCEPT !.render =
             [pc |-> "locked", time |-> time, seen |-> timeline]]
  /\ UNCHANGED <<timeline, crashed, op, cutIn, pvars, pull, library, app>>

\* let active_clips = timeline.active_clips_at(time)
RenderResolves ==
  /\ threads.render.pc = "locked"
  /\ threads' = [threads EXCEPT !.render =
        [pc |-> "resolved", time |-> @.time, seen |-> @.seen,
         active |-> active_clips_at(timeline, @.time)]]
  /\ UNCHANGED <<timeline, crashed, op, cutIn, pvars, pull, library, app>>

\* the frame is decoded, composited and inserted in the cache
RenderInserts ==
  /\ threads.render.pc = "resolved"
  /\ \E outcome \in DecodeOutcomes :
       renderer' = Composite(renderer, threads.render.time, outcome,
                             AsU64(FMul(threads.render.time, renderer.frame_rate)),
                             FirstVideoRequest(threads.render.active,
                                               threads.render.time, renderer)).renderer
  /\ threads' = [threads EXCEPT !.render.pc = "inserted"]
  /\ UNCHANGED <<timeline, crashed, op, cutIn, rendered, cleared, bridge, now, lastCalls,
                 pull, library, app>>

\* render_frame returns and the read guard is dropped
RenderReturns ==
  /\ threads.render.pc = "inserted"
  /\ threads' = [threads EXCEPT !.render = [pc |-> "idle"]]
  /\ UNCHANGED <<timeline, crashed, op, cutIn, pvars, pull, library, app>>

InitLock ==
  /\ timeline = LoadedTimeline
  /\ crashed = FALSE
  /\ op = NoOp
  /\ cutIn = NoCut
  /\ renderer = NewRenderer(PreviewWidth, PreviewHeight, PreviewFrameRate)
  /\ rendered = {}
  /\ cleared = {}
  /\ bridge = NewBridge(NewPlaybackState, 0)
  /\ now = 0
  /\ lastCalls = NoCalls
  /\ pull = NoPull
  /\ library = NewMediaLibrary
  /\ threads = NoThreads
  /\ app = NewApp

NextLock ==
  \/ UiLocks
  \/ UiSplitRemoves
  \/ UiSplitInsertsRight
  \/ UiSplitInsertsLeft
  \/ UiUnlocks
  \/ RenderLocks
  \/ RenderResolves
  \/ RenderInserts
  \/ RenderReturns

SpecLock == InitLock /\ [][NextLock]_vars

---------------------------------------------------------------------------
(* The frame loop of the application, CutioApp::update: the playhead        *)
(* advance at the head of a frame and the playback buttons.  Times are      *)
(* whole milliseconds.                                                      *)

\* the least time between two advances: Duration::from_millis(33)
AdvanceMillis == 33

\* the least upper bound of the playhead: timeline.duration.max(999.0)
LeastMaxTimeSeconds == 999

\* the frames the model follows
MaxFrames == 5

\* the wall time between two frames
FrameGaps == {16, 40, 5000}

\* what the user does in a frame
Clicks == {"none", "play_pause", "back", "forward"}

\* max_time in milliseconds, the timeline being the one of main
AppMaxTime == FMax(MainTimelineSeconds, LeastMaxTimeSeconds) * 1000

\* the LAST_PLAY_TIME.with closure of update: dt is the time since the last
\* tick; the elapsed time and the thread local afterwards
Ticked(last, instant, dt) ==
  IF dt >= AdvanceMillis
  THEN [elapsed |-> dt, last |-> Some(instant)]
  ELSE [elapsed |-> 0, last |-> IF last = None THEN Some(instant) ELSE last]

\* the time since the last tick, zero when there has been none
SinceLast(last, instant) == IF last = None THEN 0 ELSE instant - last[1]

\* the playhead advanced by the elapsed time and clamped
Advance(a, t) ==
  [a EXCEPT !.last_play_time = t.last,
            !.playback_state.playhead =
               IF t.elapsed > 0
               THEN Clamp(@ + t.elapsed * a.playback_state.playback_rate, 0, AppMaxTime)
               ELSE @]

\* the head of CutioApp::update: the playhead advances when is_playing
AdvancePlayhead(a, instant) ==
  IF a.playback_state.is_playing
  THEN Advance(a, Ticked(a.last_play_time, instant,
                         SinceLast(a.last_play_time, instant)))
  ELSE a

\* the Play/Pause button: is_playing is toggled and reset_last_play_time()
\* sets the thread local declared in that function
PlayPauseClicked(a, instant) ==
  [a EXCEPT !.playback_state.is_playing = ~@,
            !.reset_last_play_time = Some(instant)]

\* the "<<" button
BackClicked(a) ==
  [a EXCEPT !.playback_state.playhead = Clamp(FMax(@ - 1000, 0), 0, AppMaxTime)]

\* the ">>" button
ForwardClicked(a) ==
  [a EXCEPT !.playback_state.playhead = Clamp(@ + 1000, 0, AppMaxTime)]

\* the playback controls of a frame
Controls(a, instant, clicked) ==
  IF clicked = "play_pause" THEN PlayPauseClicked(a, instant)
  ELSE IF clicked = "back" THEN BackClicked(a)
  ELSE IF clicked = "forward" THEN ForwardClicked(a)
  ELSE a

\* one call of CutioApp::update at the instant given
AppUpdate(a, instant, clicked) ==
  Controls(AdvancePlayhead([a EXCEPT !.clock = instant], instant), instant, clicked)

\* the time by which the head of update at the instant advances the clock
\* of the playhead
ElapsedAt(a, instant) ==
  IF a.playback_state.is_playing
  THEN Ticked(a.last_play_time, instant, SinceLast(a.last_play_time, instant)).elapsed
  ELSE 0

\* the frames so far and the press of Play/Pause that started playback and
\* has not been followed by an advance of the playhead yet
FramesSoFar == IF op.name = "frame" THEN op.frames ELSE 0

PressPending == IF op.name = "frame" THEN op.pressed ELSE None

\* a frame of the application; op keeps the state before the frame, the
\* elapsed time of its advance and the distance the advance moved the
\* playhead, the press pending when the frame began (resumed) and the one
\* pending at its end (pressed)
AppFrame ==
  /\ op.name \in {"none", "frame"}
  /\ FramesSoFar < MaxFrames
  /\ \E gap \in FrameGaps, clicked \in Clicks :
       \E a \in {AppUpdate(app, app.clock + gap, clicked)} :
          /\ app' = a
          /\ op' = [name |-> "frame", before |-> app, clicked |-> clicked,
                    frames |-> FramesSoFar + 1,
                    elapsed |-> ElapsedAt(app, a.clock),
                    advanced |-> AdvancePlayhead(app, a.clock).playback_state.playhead
                                   - app.playback_state.playhead,
                    resumed |-> PressPending,
                    pressed |-> IF clicked = "play_pause"
                                THEN IF a.playback_state.is_playing
                                     THEN Some(a.clock) ELSE None
                                ELSE IF ElapsedAt(app, a.clock) > 0
                                     THEN None ELSE PressPending]
  /\ UNCHANGED <<timeline, crashed, cutIn, pvars, pull, library, threads>>

InitApp ==
  /\ timeline = MainTimeline
  /\ crashed = FALSE
  /\ op = NoOp
  /\ cutIn = NoCut
  /\ renderer = NewRenderer(PreviewWidth, PreviewHeight, PreviewFrameRate)
  /\ rendered = {}
  /\ cleared = {}
  /\ bridge = NewBridge(NewPlaybackState, 0)
  /\ now = 0
  /\ lastCalls = NoCalls
  /\ pull = NoPull
  /\ library = NewMediaLibrary
  /\ threads = NoThreads
  /\ app = NewApp

NextApp == AppFrame

SpecApp == InitApp /\ [][NextApp]_vars

---------------------------------------------------------------------------
(* Claims about cut_clip_at, checked under SpecCut *)

CutClip == cutIn.clip

CutEnd == FAdd(CutClip.start_time, CutClip.duration)

\* the playhead is strictly inside the clip, start_time + duration being the
\* f64 sum the code compares with
CutInside == CutClip.start_time < cutIn.playhead /\ cutIn.playhead < CutEnd

CutDone == op.name = "cut_clip_at"

CutLeft == op.ret[1][1]

CutRight == op.ret[1][2]

\* the playhead's offset into the clip, playhead - start_time
CutOffset == FSub(cutIn.playhead, CutClip.start_time)

\* out_point - in_point = duration holds of the clip that is cut
CutClipConsistent == FSub(CutClip.out_point, CutClip.in_point) = CutClip.duration

Max2(a, b) == IF a >= b THEN a ELSE b

\* floating point tolerance: three units in the last place of the largest
\* time the split computes with
CutTolerance ==
  3 * Spacing(Max2(CutEnd, Max2(CutClip.out_point, FAdd(CutClip.in_point, CutClip.duration))))

\* no operation of the split rounds its result
CutIsExact ==
  /\ IsFloat(CutClip.start_time + CutClip.duration)
  /\ IsFloat(cutIn.playhead - CutClip.start_time)
  /\ IsFloat(CutClip.in_point + (cutIn.playhead - CutClip.start_time))
  /\ IsFloat(CutClip.start_time + CutClip.duration - cutIn.playhead)

\* C1, as stated: a split strictly inside the clip returns two halves whose
\* durations add up to exactly the clip's duration, and left.out_point equals
\* right.in_point.
C1_DurationsAddUpExactly ==
  (CutDone /\ CutInside) =>
     /\ op.ret # None
     /\ FAdd(CutLeft.duration, CutRight.duration) = CutClip.duration
     /\ CutLeft.out_point = CutRight.in_point

\* C1, amended: a split strictly inside the clip returns two halves with
\* left.out_point equal to right.in_point; their durations add up to the
\* clip's duration within floating point tolerance, and to exactly the clip's
\* duration when no operation of the split rounds.
C1_DurationsAddUpWithinTolerance ==
  (CutDone /\ CutInside) =>
     /\ op.ret # None
     /\ CutLeft.out_point = CutRight.in_point
     /\ Abs(FAdd(CutLeft.duration, CutRight.duration) - CutClip.duration) <= CutTolerance
     /\ Abs(CutLeft.duration + CutRight.duration - CutClip.duration) <= CutTolerance
     /\ CutIsExact => FAdd(CutLeft.duration, CutRight.duration) = CutClip.duration

\* a split was made whose arithmetic rounded, and one whose did not is the
\* other case: here the rounded one
C1_Witness ==
  /\ CutDone /\ CutInside /\ op.ret # None
  /\ ~CutIsExact
  /\ FAdd(CutLeft.duration, CutRight.duration) # CutClip.duration

\* the halves the specification describes, field by field
ExpectedLeft ==
  [id |-> CutClip.id \o <<"_left">>,
   asset_path |-> CutClip.asset_path,
   in_point |-> CutClip.in_point,
   out_point |-> FAdd(CutClip.in_point, CutOffset),
   start_time |-> CutClip.start_time,
   duration |-> CutOffset,
   metadata |-> CutClip.metadata]

ExpectedRight ==
  [id |-> CutClip.id \o <<"_right">>,
   asset_path |-> CutClip.asset_path,
   in_point |-> FAdd(CutClip.in_point, CutOffset),
   out_point |-> CutClip.out_point,
   start_time |-> cutIn.playhead,
   duration |-> FSub(FAdd(CutClip.start_time, CutClip.duration), cutIn.playhead),
   metadata |-> CutClip.metadata]

\* the clip of test_cut_video_clip_at_middle, cut at 4.0
VideoScenario ==
  /\ CutClip = [id |-> <<"vc1">>, asset_path |-> "video.mp4", in_point |-> 0,
                out_point |-> Sec(10), start_time |-> 0, duration |-> Sec(10),
                metadata |-> VideoMetadata]
  /\ cutIn.playhead = Sec(4)

\* the clip of test_cut_audio_clip_at_middle, at start_time 2.0, cut at 6.0
AudioScenario ==
  /\ CutClip = [id |-> <<"ac1">>, asset_path |-> "audio.wav", in_point |-> 0,
                out_point |-> Sec(8), start_time |-> Sec(2), duration |-> Sec(8),
                metadata |-> AudioMetadata]
  /\ cutIn.playhead = Sec(6)

\* C2: a valid split produces exactly the two halves of the specification:
\* ids "{id}_left" and "{id}_right", the in/out points, start times and
\* durations given there, asset_path and metadata copied, for video and audio
\* clips alike; the two scenarios of the tests give the values of the tests.
C2_HalvesAsSpecified ==
  CutDone =>
     /\ CutInside => op.ret = <<(<<ExpectedLeft, ExpectedRight>>)>>
     /\ VideoScenario =>
          /\ op.ret # None
          /\ CutLeft.id = <<"vc1", "_left">> /\ CutRight.id = <<"vc1", "_right">>
          /\ CutLeft.start_time = 0 /\ CutLeft.duration = Sec(4)
          /\ CutLeft.in_point = 0 /\ CutLeft.out_point = Sec(4)
          /\ CutRight.start_time = Sec(4) /\ CutRight.duration = Sec(6)
          /\ CutRight.in_point = Sec(4) /\ CutRight.out_point = Sec(10)
          /\ CutLeft.metadata = VideoMetadata /\ CutRight.metadata = VideoMetadata
     /\ AudioScenario =>
          /\ op.ret # None
          /\ CutLeft.id = <<"ac1", "_left">> /\ CutRight.id = <<"ac1", "_right">>
          /\ CutLeft.start_time = Sec(2) /\ CutLeft.duration = Sec(4)
          /\ CutLeft.in_point = 0 /\ CutLeft.out_point = Sec(4)
          /\ CutRight.start_time = Sec(6) /\ CutRight.duration = Sec(4)
          /\ CutRight.in_point = Sec(4) /\ CutRight.out_point = Sec(8)
          /\ CutLeft.metadata = AudioMetadata /\ CutRight.metadata = AudioMetadata

\* the audio clip of the tests was cut at 6.0, away from its in_point
C2_Witness == CutDone /\ AudioScenario /\ op.ret # None

\* the playhead is at the clip's start, at its end, or outside the clip
CutAtBoundaryOrOutside ==
  \/ cutIn.playhead = CutClip.start_time
  \/ cutIn.playhead = CutEnd
  \/ cutIn.playhead < CutClip.start_time
  \/ cutIn.playhead > CutEnd

\* C3: a playhead at the clip's start_time, at start_time + duration or outside
\* the clip never splits: cut_clip_at returns None, split_clip_at_playhead
\* returns false and leaves the timeline as it was.
C3_NoSplitAtBoundaryOrOutside ==
  CutAtBoundaryOrOutside =>
     /\ CutDone => op.ret = None
     /\ op.name = "split_clip_at_playhead" =>
          /\ op.ret = FALSE
          /\ timeline = op.before
          /\ timeline.tracks[1].clips = <<CutClip>>

\* cut_clip_at was called with the playhead exactly at the end of the clip
C3_Witness == CutDone /\ cutIn.playhead = CutEnd /\ op.ret = None

\* split_clip_at_playhead was called with the playhead exactly at the start
C3_WitnessTimeline ==
  op.name = "split_clip_at_playhead" /\ cutIn.playhead = CutClip.start_time /\ op.ret = FALSE

\* C4, as stated (for a clip that itself has duration = out_point - in_point):
\* after a valid split, each half has duration exactly out_point - in_point.
C4_HalvesConsistentExactly ==
  (CutDone /\ CutInside /\ CutClipConsistent) =>
     /\ CutLeft.duration = FSub(CutLeft.out_point, CutLeft.in_point)
     /\ CutRight.duration = FSub(CutRight.out_point, CutRight.in_point)

\* C4, amended: after a valid split of a clip with duration = out_point -
\* in_point, each half has duration equal to out_point - in_point within
\* floating point tolerance, and exactly when no operation of the split rounds.
C4_HalvesConsistentWithinTolerance ==
  (CutDone /\ CutInside /\ CutClipConsistent) =>
     /\ Abs(CutLeft.duration - FSub(CutLeft.out_point, CutLeft.in_point)) <= CutTolerance
     /\ Abs(CutRight.duration - FSub(CutRight.out_point, CutRight.in_point)) <= CutTolerance
     /\ (CutIsExact /\ IsFloat(CutClip.out_point - CutClip.in_point)) =>
          /\ CutLeft.duration = FSub(CutLeft.out_point, CutLeft.in_point)
          /\ CutRight.duration = FSub(CutRight.out_point, CutRight.in_point)

\* a consistent clip was split and a half is off by a rounding error
C4_Witness ==
  /\ CutDone /\ CutInside /\ CutClipConsistent
  /\ CutRight.duration # FSub(CutRight.out_point, CutRight.in_point)

\* the renderer's source timestamp of a clip at timeline time t:
\* time - clip_start_time + clip_in_point
SourceTime(clip, t) == FAdd(FSub(t, clip.start_time), clip.in_point)

\* the clip is active at t, as active_clips_at decides it
ActiveAt(clip, t) == clip.start_time <= t /\ t < FAdd(clip.start_time, clip.duration)

\* C5, as stated: for every time t inside the original clip, the source
\* timestamp computed from the half active at t is exactly the one computed
\* from the original clip.
C5_SourceTimeExactlyPreserved ==
  (CutDone /\ CutInside) =>
     \A t \in CutTimes :
        ActiveAt(CutClip, t) =>
           /\ ActiveAt(CutLeft, t) => SourceTime(CutLeft, t) = SourceTime(CutClip, t)
           /\ ActiveAt(CutRight, t) => SourceTime(CutRight, t) = SourceTime(CutClip, t)

\* C5, amended: for every time t inside the original clip, the source
\* timestamp computed from the left half, when it is active at t, is exactly
\* the original clip's; the one computed from the right half, when it is
\* active at t, is the original clip's within floating point tolerance, and
\* exactly when no operation involved rounds.
C5_SourceTimePreservedWithinTolerance ==
  (CutDone /\ CutInside) =>
     \A t \in CutTimes :
        ActiveAt(CutClip, t) =>
           /\ ActiveAt(CutLeft, t) => SourceTime(CutLeft, t) = SourceTime(CutClip, t)
           /\ ActiveAt(CutRight, t) =>
                /\ Abs(SourceTime(CutRight, t) - SourceTime(CutClip, t)) <= CutTolerance
                /\ ( /\ CutIsExact
                     /\ IsFloat(t - cutIn.playhead)
                     /\ IsFloat(t - CutClip.start_time)
                     /\ IsFloat(t - CutClip.start_time + CutClip.in_point) )
                   => SourceTime(CutRight, t) = SourceTime(CutClip, t)

\* a time in the right half, past a nonzero in_point, whose source timestamp
\* the split changed by a rounding error
C5_Witness ==
  /\ CutDone /\ CutInside
  /\ \E t \in CutTimes :
       /\ ActiveAt(CutClip, t) /\ ActiveAt(CutRight, t)
       /\ CutClip.in_point > 0
       /\ SourceTime(CutRight, t) # SourceTime(CutClip, t)

---------------------------------------------------------------------------
(* Claims about the Timeline, checked under Spec *)

SplitDone == op.name = "split_clip_at_playhead"

\* the open interval (start_time, start_time + duration) contains the playhead
StrictlyInside(clip, playhead) ==
  clip.start_time < playhead /\ playhead < FAdd(clip.start_time, clip.duration)

\* the indexes of the tracks of tl that have the id
TracksNamed(tl, track_id) == {k \in 1 .. Len(tl.tracks) : tl.tracks[k].id = track_id}

\* the indexes of the clips of a track that strictly contain the playhead
ClipsInside(track, playhead) ==
  {i \in 1 .. Len(track.clips) : StrictlyInside(track.clips[i], playhead)}

Least(S) == CHOOSE x \in S : \A y \in S : x <= y

\* the left half the specification describes for a clip split at the playhead
LeftHalf(clip, playhead) ==
  [id |-> clip.id \o <<"_left">>,
   asset_path |-> clip.asset_path,
   in_point |-> clip.in_point,
   out_point |-> FAdd(clip.in_point, FSub(playhead, clip.start_time)),
   start_time |-> clip.start_time,
   duration |-> FSub(playhead, clip.start_time),
   metadata |-> clip.metadata]

\* the right half the specification describes
RightHalf(clip, playhead) ==
  [id |-> clip.id \o <<"_right">>,
   asset_path |-> clip.asset_path,
   in_point |-> FAdd(clip.in_point, FSub(playhead, clip.start_time)),
   out_point |-> clip.out_point,
   start_time |-> playhead,
   duration |-> FSub(FAdd(clip.start_time, clip.duration), playhead),
   metadata |-> clip.metadata]

\* some clip of the named track strictly contains the playhead of the call
SplitPossible ==
  \E k \in TracksNamed(op.before, op.track_id) :
     ClipsInside(op.before.tracks[k], op.playhead) # {}

\* C6: split_clip_at_playhead splits only the first clip, in clip order, of
\* the named track that strictly contains the playhead: that clip is replaced
\* at its index by left then right, the track gains exactly one clip, every
\* other clip keeps its place in the order and its fields, every other track
\* and the timeline's duration, frame_rate and resolution are unchanged, and
\* the call returns true; further clips containing the playhead stay unsplit.
C6_SplitsFirstClipOnly ==
  (SplitDone /\ SplitPossible) =>
     /\ Cardinality(TracksNamed(op.before, op.track_id)) = 1
     /\ LET k      == Least(TracksNamed(op.before, op.track_id))
            before == op.before.tracks[k]
            after  == timeline.tracks[k]
            i      == Least(ClipsInside(before, op.playhead))
        IN /\ op.ret = TRUE
           /\ Len(timeline.tracks) = Len(op.before.tracks)
           /\ \A j \in 1 .. Len(timeline.tracks) :
                 j # k => timeline.tracks[j] = op.before.tracks[j]
           /\ timeline.duration = op.before.duration
           /\ timeline.frame_rate = op.before.frame_rate
           /\ timeline.resolution = op.before.resolution
           /\ after.kind = before.kind /\ after.id = before.id
           /\ after.name = before.name /\ after.muted = before.muted
           /\ Len(after.clips) = Len(before.clips) + 1
           /\ after.clips[i] = LeftHalf(before.clips[i], op.playhead)
           /\ after.clips[i + 1] = RightHalf(before.clips[i], op.playhead)
           /\ \A j \in 1 .. Len(before.clips) :
                 /\ j < i => after.clips[j] = before.clips[j]
                 /\ j > i => after.clips[j + 1] = before.clips[j]

\* a split of a track on which a later clip contains the playhead as well
C6_Witness ==
  /\ SplitDone /\ op.ret = TRUE
  /\ \E k \in TracksNamed(op.before, op.track_id) :
        Cardinality(ClipsInside(op.before.tracks[k], op.playhead)) >= 2

\* C7: when no clip of the named track strictly contains the playhead, or no
\* track has the id, split_clip_at_playhead returns false, does not panic and
\* leaves the whole timeline unchanged.
C7_NoSplitLeavesTimeline ==
  (SplitDone /\ ~SplitPossible) =>
     /\ op.ret = FALSE
     /\ timeline = op.before
     /\ ~crashed

\* a refused split of a track whose clip starts exactly at the playhead
C7_Witness ==
  /\ SplitDone /\ op.ret = FALSE
  /\ \E k \in TracksNamed(op.before, op.track_id) :
        \E i \in 1 .. Len(op.before.tracks[k].clips) :
           op.before.tracks[k].clips[i].start_time = op.playhead

\* a refused split asked of a track id that no track has
C7_WitnessNoTrack ==
  /\ SplitDone /\ op.ret = FALSE
  /\ TracksNamed(op.before, op.track_id) = {}
  /\ Len(op.before.tracks) > 0

\* the clip ids of a track are pairwise distinct
IdsDistinct(track) ==
  \A i, j \in 1 .. Len(track.clips) : i # j => track.clips[i].id # track.clips[j].id

\* C8: clip ids stay unique within a track after a split: a successful
\* split_clip_at_playhead of a track whose clip ids are pairwise distinct
\* leaves them pairwise distinct.
C8_IdsStayUnique ==
  \A track_id \in TrackIds, playhead \in Playheads :
     LET r == split_clip_at_playhead(timeline, track_id, playhead)
     IN \A k \in TracksNamed(timeline, track_id) :
           (r[2] /\ IdsDistinct(timeline.tracks[k])) => IdsDistinct(r[1].tracks[k])

RECURSIVE ClipsFrom(_, _)
\* every clip of the tracks from index k on, in track order and then clip
\* order, each with the variant of its track
ClipsFrom(tracks, k) ==
  IF k > Len(tracks) THEN <<>>
  ELSE [i \in 1 .. Len(tracks[k].clips) |->
          [variant |-> tracks[k].kind, clip |-> tracks[k].clips[i]]]
       \o ClipsFrom(tracks, k + 1)

\* C9: active_clips_at(t) returns exactly the clips, video and audio, of all
\* tracks with start_time <= t < start_time + duration, in track order and
\* then clip order: a clip (of positive duration) is included at
\* t = start_time and excluded at t = start_time + duration.
C9_ActiveClipsHalfOpen ==
  op.name = "active_clips_at" =>
     LET all == ClipsFrom(timeline.tracks, 1)
         In(ac) == ac.clip.start_time <= op.time
                   /\ op.time < FAdd(ac.clip.start_time, ac.clip.duration)
     IN /\ op.ret = SelectSeq(all, In)
        /\ \A n \in 1 .. Len(all) :
              /\ (all[n].clip.start_time = op.time
                  /\ FAdd(all[n].clip.start_time, all[n].clip.duration) > op.time)
                 => \E m \in 1 .. Len(op.ret) : op.ret[m] = all[n]
              /\ FAdd(all[n].clip.start_time, all[n].clip.duration) = op.time
                 => \A m \in 1 .. Len(op.ret) : op.ret[m] # all[n]

\* a query at a time where one clip starts and another one ends, answered with
\* a video and an audio clip
C9_Witness ==
  /\ op.name = "active_clips_at"
  /\ \E m \in 1 .. Len(op.ret) : op.ret[m].clip.start_time = op.time
  /\ \E m \in 1 .. Len(op.ret) : op.ret[m].variant = "Audio"
  /\ \E m \in 1 .. Len(op.ret) : op.ret[m].variant = "Video"
  /\ \E k \in 1 .. Len(timeline.tracks) : \E i \in 1 .. Len(timeline.tracks[k].clips) :
        LET c == timeline.tracks[k].clips[i]
        IN FAdd(c.start_time, c.duration) = op.time

\* C10: clips_in_range(start, end) returns exactly the clips, of all tracks
\* and in track order and then clip order, with start_time + duration > start
\* and start_time < end; a clip that only touches the range (its end = start,
\* or its start = end) is not returned; ranges reaching beyond the timeline
\* are decided by the same test.
C10_ClipsInRangeOverlap ==
  op.name = "clips_in_range" =>
     LET all == ClipsFrom(timeline.tracks, 1)
         In(ac) == FAdd(ac.clip.start_time, ac.clip.duration) > op.start
                   /\ ac.clip.start_time < op.end
     IN /\ op.ret = SelectSeq(all, In)
        /\ \A n \in 1 .. Len(all) :
              (FAdd(all[n].clip.start_time, all[n].clip.duration) = op.start
               \/ all[n].clip.start_time = op.end)
              => \A m \in 1 .. Len(op.ret) : op.ret[m] # all[n]

\* a range reaching beyond the end of the timeline that returns a clip and
\* leaves out one that ends where the range starts
C10_Witness ==
  /\ op.name = "clips_in_range"
  /\ op.end > timeline.duration
  /\ Len(op.ret) > 0
  /\ \E k \in 1 .. Len(timeline.tracks) : \E i \in 1 .. Len(timeline.tracks[k].clips) :
        LET c == timeline.tracks[k].clips[i]
        IN FAdd(c.start_time, c.duration) = op.start /\ c.duration > 0

\* C11: clips_in_range(a, b) with b <= a returns no clips, whatever the
\* timeline holds: an inverted range returns none at all, and a zero-width
\* range returns at most clips whose start_time is the point of the range.
C11_InvertedRangeReturnsNothing ==
  (op.name = "clips_in_range" /\ op.end <= op.start) =>
     /\ op.end < op.start => op.ret = <<>>
     /\ op.end = op.start =>
          \A m \in 1 .. Len(op.ret) : op.ret[m].clip.start_time = op.start

\* C12: clips_on_track(track_id) returns all clips of the track with that id,
\* in clip order and each wrapped in the variant of the track's kind; it
\* returns None, without a panic, when no track has the id; the timeline is
\* the same after the query as before it.
C12_ClipsOnTrack ==
  op.name = "clips_on_track" =>
     LET named == TracksNamed(timeline, op.track_id)
     IN /\ named = {} => op.ret = None
        /\ named # {} =>
             LET track == timeline.tracks[Least(named)]
             IN /\ op.ret # None
                /\ Len(op.ret[1]) = Len(track.clips)
                /\ \A i \in 1 .. Len(track.clips) :
                      /\ op.ret[1][i].clip = track.clips[i]
                      /\ op.ret[1][i].variant = track.kind
        /\ timeline = op.before
        /\ ~crashed

\* the clips of an audio track were asked for and returned
C12_Witness ==
  /\ op.name = "clips_on_track"
  /\ op.ret # None
  /\ Len(op.ret[1]) >= 2
  /\ \A i \in 1 .. Len(op.ret[1]) : op.ret[1][i].variant = "Audio"

\* the clips of a track that the timeline does not have were asked for
C12_WitnessNoTrack ==
  /\ op.name = "clips_on_track"
  /\ op.ret = None
  /\ Len(timeline.tracks) > 0

---------------------------------------------------------------------------
(* Claims about the TimelineRenderer, checked under SpecRender *)

RenderDone == op.name = "render_frame"

\* the frames built since the last clear_cache, before the call, that have
\* the frame number of the frame returned
EarlierSameNumber == {e \in op.earlier : e.frame.frame_number = op.ret.frame_number}

\* C13: when render_frame is called for a time whose frame number a call
\* since the last clear_cache had as well, it returns the data that call
\* returned, byte for byte, issues no decode request and does not read the
\* timeline.
C13_CachedFrameStable ==
  RenderDone =>
     \A e \in EarlierSameNumber :
        /\ op.ret.data = e.frame.data
        /\ op.decode = None
        /\ ~op.read_timeline

\* a decoded frame was returned a second time, for another time of the same
\* frame number
C13_Witness ==
  /\ RenderDone
  /\ EarlierSameNumber # {}
  /\ op.ret.data.fill # "zeros"
  /\ op.ret.timestamp # op.time

\* the video clips of the timeline that are active at t, in track order and
\* then clip order
ActiveVideoClips(tl, t) ==
  LET IsActiveVideo(ac) == ac.variant = "Video" /\ ActiveAt(ac.clip, t)
  IN SelectSeq(ClipsFrom(tl.tracks, 1), IsActiveVideo)

\* the decode request of a render of time t against the timeline tl: for the
\* first active video clip, None when no video clip is active
ExpectedRequest(tl, t) ==
  IF ActiveVideoClips(tl, t) = <<>> THEN None
  ELSE LET clip == ActiveVideoClips(tl, t)[1].clip
       IN Some([path |-> clip.asset_path,
                timestamp |-> FAdd(FSub(t, clip.start_time), clip.in_point),
                width |-> renderer.width, height |-> renderer.height])

\* C14: the frame cache is cleared between an edit of the timeline (a split,
\* a clip or a track added by the widget) and the next render_frame, so every
\* frame that render_frame returns was built as a render against the current
\* timeline builds it: from the clip that is now the first active video clip
\* at the frame's time, or from none when there is none now.
C14_FramesFollowTheTimeline ==
  RenderDone =>
     \A e \in rendered :
        e.frame = op.ret => e.decode = ExpectedRequest(timeline, op.ret.timestamp)

\* C15: once clear_cache has run after an edit of the timeline, no frame
\* cached before it is returned again: every frame render_frame returns was
\* built since the last clear_cache, and the first render of a frame number
\* after it reads the current timeline and decodes the clip that is now the
\* first active video clip at the time asked for.
C15_NoStaleFrameAfterClear ==
  /\ op.name = "clear_cache" => DOMAIN renderer.frame_cache = {}
  /\ RenderDone =>
       /\ \E e \in rendered : e.frame = op.ret
       /\ EarlierSameNumber = {} =>
            /\ op.read_timeline
            /\ op.ret.timestamp = op.time
            /\ op.decode = ExpectedRequest(timeline, op.time)

\* a frame number was rendered, the timeline was edited, the cache was
\* cleared, and the frame number was rendered again, now from a clip
C15_Witness ==
  /\ RenderDone
  /\ op.decode # None
  /\ \E c \in cleared :
        /\ c.frame_number = op.ret.frame_number
        /\ c.decode = None
        /\ c.timestamp = op.time

\* C16: a render_frame that misses the cache makes exactly the decode
\* request (asset_path, t - start_time + in_point, width, height) of the
\* first active video clip, in track order and then clip order, when a video
\* clip is active at t, and makes no decode request when none is; audio clips
\* are never decoded.
C16_FirstActiveVideoClipDecoded ==
  (RenderDone /\ op.read_timeline) =>
     /\ op.decode = ExpectedRequest(timeline, op.time)
     /\ ActiveVideoClips(timeline, op.time) = <<>> => op.decode = None
     /\ op.decode # None =>
          \E k \in 1 .. Len(timeline.tracks) :
             /\ timeline.tracks[k].kind = "Video"
             /\ \E i \in 1 .. Len(timeline.tracks[k].clips) :
                   LET clip == timeline.tracks[k].clips[i]
                   IN /\ ActiveAt(clip, op.time)
                      /\ op.decode[1].path = clip.asset_path
                      /\ op.decode[1].timestamp = SourceTime(clip, op.time)
                      /\ op.decode[1].width = renderer.width
                      /\ op.decode[1].height = renderer.height
             /\ \A j \in 1 .. k - 1 :
                   \/ timeline.tracks[j].kind = "Audio"
                   \/ \A i \in 1 .. Len(timeline.tracks[j].clips) :
                         ~ActiveAt(timeline.tracks[j].clips[i], op.time)

\* video clips of two tracks were active and the one of the first track was
\* decoded, at a source time past its in_point
C16_Witness ==
  /\ RenderDone /\ op.read_timeline
  /\ Len(ActiveVideoClips(timeline, op.time)) >= 2
  /\ op.decode # None
  /\ op.decode[1].path = "intro.mp4"
  /\ op.decode[1].timestamp = Sec(1)

\* an audio clip on the first track was active and the video clip of the
\* second track was decoded
C16_WitnessAudioFirst ==
  /\ RenderDone /\ op.read_timeline
  /\ op.decode # None
  /\ Len(timeline.tracks) = 2
  /\ timeline.tracks[1].kind = "Audio"
  /\ \E i \in 1 .. Len(timeline.tracks[1].clips) :
        ActiveAt(timeline.tracks[1].clips[i], op.time)

\* the length of an RGBA buffer of the renderer's size
FrameBytes == renderer.width * renderer.height * 4

\* C17: render_frame returns a frame whatever the decoder does: a frame built
\* when no video clip is active, when the decode fails or when the decoded
\* buffer has another length than width*height*4 is zero-filled; every frame
\* returned has data of exactly width*height*4 bytes and the width and height
\* of the renderer, and a decoded buffer of the right length is the data.
C17_BlankFrameOnDecodeFailure ==
  RenderDone =>
     /\ op.ret.data.len = FrameBytes
     /\ op.ret.width = renderer.width
     /\ op.ret.height = renderer.height
     /\ op.read_timeline =>
          /\ op.answer \in {"not asked", "none", "other_length"}
               => op.ret.data = [len |-> FrameBytes, fill |-> "zeros"]
          /\ op.answer = "frame"
               => op.ret.data = [len |-> FrameBytes,
                                 fill |-> <<op.decode[1].path, op.decode[1].timestamp>>]
     /\ ~crashed

\* the decoder answered with a buffer of another length and the frame
\* returned is the zero-filled one
C17_Witness ==
  /\ RenderDone
  /\ op.read_timeline
  /\ op.answer = "other_length"
  /\ op.ret.data.fill = "zeros"

\* the decoder answered with None
C17_WitnessDecodeFailed ==
  /\ RenderDone
  /\ op.read_timeline
  /\ op.answer = "none"
  /\ op.ret.data.fill = "zeros"

\* the whole number of frames in x, a number of frames in quanta: floor(x)
Floor(x) == x \div (2 ^ FracBits)

\* every cache entry holds a frame that carries its key as frame_number
KeysAreFrameNumbers ==
  \A k \in DOMAIN renderer.frame_cache : renderer.frame_cache[k].frame_number = k

C30_TimestampIsRequestedTime ==
  RenderDone => op.ret.timestamp = op.time

\* the number of the frame of time t
FrameNumberOf(t) == IF t >= 0 THEN Floor(FMul(t, renderer.frame_rate)) ELSE 0

\* C30, amended: a frame returned by render_frame(t) on a cache miss has
\* timestamp equal to t; on a cache hit it is the frame stored by the
\* earlier call with the same frame number and carries the time of that
\* call, which has the frame number of t.
C30_TimestampIsTimeOfBuilding ==
  RenderDone =>
     /\ op.read_timeline => op.ret.timestamp = op.time
     /\ ~op.read_timeline =>
          /\ op.ret = op.before.frame_cache[FrameNumberOf(op.time)]
          /\ FrameNumberOf(op.ret.timestamp) = FrameNumberOf(op.time)

\* a cache hit returned a frame built for another time
C30_Witness ==
  /\ RenderDone
  /\ ~op.read_timeline
  /\ op.ret.timestamp # op.time

---------------------------------------------------------------------------
(* Claims about the TimelinePlayerBridge, checked under SpecPlay *)

\* the upper bound of the playhead: max(timeline.duration, 1.0)
MaxTime == IF timeline.duration >= Sec(1) THEN timeline.duration ELSE Sec(1)

\* the value between 0 and MaxTime that is nearest to x
Clamped(x) == IF x < 0 THEN 0 ELSE IF x > MaxTime THEN MaxTime ELSE x

\* the wall time between last_update and the call
Elapsed == op.instant - op.before.last_update

\* C19: update() sets playhead to clamp(playhead + elapsed * playback_rate,
\* 0, max(timeline.duration, 1.0)) when is_playing, elapsed being the wall
\* time since last_update, and to clamp(playhead, 0, max(timeline.duration,
\* 1.0)) when not playing; it always sets last_update to now and leaves
\* is_playing and playback_rate alone; so once an update or a seek has run,
\* 0 <= playhead <= max(timeline.duration, 1.0).
C19_UpdateAdvancesAndClamps ==
  /\ op.name = "update" =>
       LET before == op.before.playback_state
       IN /\ before.is_playing =>
               bridge.playback_state.playhead =
                  Clamped(Round(before.playhead + Round(Elapsed * before.playback_rate)))
          /\ ~before.is_playing =>
               bridge.playback_state.playhead = Clamped(before.playhead)
          /\ bridge.last_update = now
          /\ bridge.playback_state.is_playing = before.is_playing
          /\ bridge.playback_state.playback_rate = before.playback_rate
  /\ bridge.video_buffer # <<>> =>
       /\ 0 <= bridge.playback_state.playhead
       /\ bridge.playback_state.playhead <= MaxTime

\* playback at rate 1.0 from playhead 0 for half a second of wall time
\* moved the playhead to 0.5
C19_Witness ==
  /\ op.name = "update"
  /\ op.before.playback_state.is_playing
  /\ op.before.playback_state.playhead = 0
  /\ op.before.playback_state.playback_rate = 1
  /\ Elapsed = Sec(1) \div 2
  /\ bridge.playback_state.playhead = Sec(1) \div 2

\* an update while playing ran into the end of the timeline
C19_WitnessClampedAtEnd ==
  /\ op.name = "update"
  /\ op.before.playback_state.is_playing
  /\ op.before.playback_state.playhead + Elapsed * op.before.playback_state.playback_rate
       > MaxTime
  /\ bridge.playback_state.playhead = MaxTime
  /\ timeline.duration > Sec(1)

\* C20: after seek(t), playhead is clamp(t, 0, max(timeline.duration, 1.0)),
\* whether or not is_playing is true and however much wall time has passed
\* since last_update.
C20_SeekSetsPlayhead ==
  op.name = "seek" => bridge.playback_state.playhead = Clamped(op.time)

\* the fields of the playback state that no call of the bridge changes,
\* is_playing apart
SettingsKept ==
  /\ bridge.playback_state.loop_start = op.before.playback_state.loop_start
  /\ bridge.playback_state.loop_end = op.before.playback_state.loop_end
  /\ bridge.playback_state.volume = op.before.playback_state.volume
  /\ bridge.playback_state.playback_rate = op.before.playback_state.playback_rate

\* seek and update keep is_playing, loop_start, loop_end, volume and
\* playback_rate; play changes is_playing and last_update only and pause
\* is_playing only, so that both keep the playhead and the frame buffer
OnlyTheStatedFieldsChange ==
  /\ op.name \in {"update", "seek"} =>
       /\ SettingsKept
       /\ bridge.playback_state.is_playing = op.before.playback_state.is_playing
  /\ op.name = "play" =>
       bridge = [op.before EXCEPT !.playback_state.is_playing = TRUE,
                                  !.last_update = op.instant]
  /\ op.name = "pause" =>
       bridge = [op.before EXCEPT !.playback_state.is_playing = FALSE]

\* C21: seek and update never change is_playing, loop_start, loop_end,
\* volume or playback_rate, and a seek to a negative time on a timeline of
\* 10 s or more yields playhead 0.0 with is_playing as before; play and pause change only is_playing (and,
\* for play, last_update) and leave playhead and the frame buffer unchanged.
C21_FrameOfTheBridgeCalls ==
  /\ OnlyTheStatedFieldsChange
  /\ op.name = "seek" /\ op.time < 0 /\ timeline.duration >= Sec(10) =>
       /\ bridge.playback_state.playhead = 0
       /\ bridge.playback_state.is_playing = op.before.playback_state.is_playing

\* an update that is the first call on the bridge after a pause(), a wait
\* and a play()
FirstUpdateAfterResume ==
  /\ op.name = "update"
  /\ op.calls.paused # None
  /\ op.calls.played # None

\* the wall time between the play() call and the update
SincePlay == op.instant - op.calls.played[1]

\* C22: wall time that passes while the bridge is paused is never added to
\* the playhead: after pause(), a wait and play(), the first update() moves
\* the playhead by playback_rate times the wall time since that play() call
\* only (and clamps it, as every update does).
C22_PausedTimeNotCounted ==
  FirstUpdateAfterResume =>
     bridge.playback_state.playhead =
        Clamped(Round(op.before.playback_state.playhead
                      + Round(SincePlay * op.before.playback_state.playback_rate)))

\* 400 s passed in pause and 400 s more since play(): the update moved the
\* playhead by 400 s and not by 800 s
C22_Witness ==
  /\ FirstUpdateAfterResume
  /\ op.calls.played[1] - op.calls.paused[1] = Sec(400)
  /\ SincePlay = Sec(400)
  /\ op.before.playback_state.playback_rate = 1
  /\ op.before.playback_state.playhead = 0
  /\ bridge.playback_state.playhead = Sec(400)

\* no update and no seek has run: the renderer of the bridge has rendered
\* nothing
NeverRendered == renderer.frame_cache = EmptyCache

\* C23: current_frame() returns none until the first update() or seek();
\* afterwards the buffer of the bridge holds exactly one frame, the one
\* rendered by the most recent update() or seek(), and its frame_number is
\* floor(playhead * frame_rate) for the playhead left by that call.
C23_BufferHoldsLastFrame ==
  /\ NeverRendered => current_frame(bridge) = None
  /\ ~NeverRendered =>
       /\ Len(bridge.video_buffer) = 1
       /\ current_frame(bridge)[1].frame_number =
             Floor(FMul(bridge.playback_state.playhead, renderer.frame_rate))
  /\ op.name \in {"update", "seek"} => current_frame(bridge) = Some(op.frame)
  /\ op.name = "current_frame" /\ NeverRendered => op.ret = None

\* current_frame() returned the frame of a playhead that an update moved
C23_Witness ==
  /\ op.name = "current_frame"
  /\ op.ret # None
  /\ op.ret[1].frame_number = 15
  /\ bridge.playback_state.playhead = Sec(1) \div 2

\* current_frame() returned none after play(), before any update or seek
C23_WitnessNone ==
  /\ op.name = "current_frame"
  /\ op.ret = None
  /\ bridge.playback_state.is_playing

---------------------------------------------------------------------------
(* Further claims about the Timeline, checked under Spec *)

\* in_point < out_point, start_time >= 0 and duration > 0
WellFormed(clip) ==
  /\ clip.in_point < clip.out_point
  /\ clip.start_time >= 0
  /\ clip.duration > 0

\* C25: no malformed clip ever enters the Timeline: after any sequence of
\* drops of media items onto existing or new tracks and of
\* split_clip_at_playhead, every clip of the timeline has in_point <
\* out_point, start_time >= 0 and duration > 0.
C25_NoMalformedClip ==
  \A k \in 1 .. Len(timeline.tracks) :
     \A i \in 1 .. Len(timeline.tracks[k].clips) :
        WellFormed(timeline.tracks[k].clips[i])

---------------------------------------------------------------------------
(* A further claim about the split, checked under SpecCut *)

\* the split of the test timeline succeeded
SplitSucceeded == op.name = "split_clip_at_playhead" /\ op.ret

\* the two halves on the track after the split
SplitLeft == timeline.tracks[1].clips[1]

SplitRight == timeline.tracks[1].clips[2]

\* the number of clips of a track that are active at t
ActiveCount(track, t) ==
  Cardinality({i \in 1 .. Len(track.clips) : ActiveAt(track.clips[i], t)})

\* the times activity is compared at: the times of CutTimes, the playhead,
\* the ends of the clip and of its halves, and the times just farther than
\* the tolerance from the playhead and from the end of the clip
ProbeTimes ==
  CutTimes \cup {cutIn.playhead, CutEnd,
                 FAdd(SplitLeft.start_time, SplitLeft.duration),
                 FAdd(SplitRight.start_time, SplitRight.duration),
                 FSub(cutIn.playhead, CutTolerance + 1),
                 FAdd(cutIn.playhead, CutTolerance + 1),
                 FSub(CutEnd, CutTolerance + 1),
                 FAdd(CutEnd, CutTolerance + 1)}

\* activity at t is what it was before the split, and inside the original
\* clip the half active at t is the left one before the playhead and the
\* right one from the playhead on
SameActivityAt(t) ==
  /\ ActiveCount(timeline.tracks[1], t) = ActiveCount(op.before.tracks[1], t)
  /\ ActiveAt(CutClip, t) =>
       /\ ActiveAt(SplitLeft, t) <=> t < cutIn.playhead
       /\ ActiveAt(SplitRight, t) <=> t >= cutIn.playhead

\* C29, as stated: a successful split does not change what is active when:
\* for every time t the number of clips of the split track active at t is
\* the same before and after, and for t inside the original clip exactly one
\* half is active, the left one for t < playhead and the right one for
\* t >= playhead.
C29_SplitKeepsActivity ==
  SplitSucceeded => \A t \in ProbeTimes : SameActivityAt(t)

\* t is farther than the tolerance from the playhead and from the end of
\* the clip
FarFromTheCuts(t) ==
  /\ Abs(t - cutIn.playhead) > CutTolerance
  /\ Abs(t - CutEnd) > CutTolerance

\* the durations of the two halves are computed without rounding
SplitIsExact ==
  /\ IsFloat(cutIn.playhead - CutClip.start_time)
  /\ IsFloat(CutEnd - cutIn.playhead)

\* C29, amended: a successful split does not change what is active at any
\* time farther than the floating point tolerance from the playhead and
\* from the end of the clip, and at no time at all when the durations of
\* the halves are computed without rounding: the number of active clips of
\* the track is the same, and inside the original clip exactly one half is
\* active, the left one before the playhead and the right one from it on.
C29_SplitKeepsActivityWithinTolerance ==
  SplitSucceeded =>
     \A t \in ProbeTimes : (FarFromTheCuts(t) \/ SplitIsExact) => SameActivityAt(t)

\* the left half ends before the playhead, because playhead - start_time was
\* rounded, and a time inside the original clip is in neither half
C29_Witness ==
  /\ SplitSucceeded
  /\ FAdd(SplitLeft.start_time, SplitLeft.duration) < cutIn.playhead
  /\ \E t \in ProbeTimes :
       /\ ActiveAt(CutClip, t)
       /\ ~ActiveAt(SplitLeft, t)
       /\ ~ActiveAt(SplitRight, t)

\* an exact split: at the playhead the right half is the active one
C29_WitnessExact ==
  /\ SplitSucceeded
  /\ SplitIsExact
  /\ ActiveAt(SplitRight, cutIn.playhead)
  /\ ~ActiveAt(SplitLeft, cutIn.playhead)
  /\ CutClip.start_time > 0

---------------------------------------------------------------------------
(* Claims about the lock of the timeline, checked under SpecLock *)

\* the split under way has removed the clip and not yet inserted both halves
PartlySplit == threads.ui.pc \in {"removed", "right_inserted"}

\* render_frame is between taking the timeline and returning
RenderPassUnderWay == threads.render.pc \in {"locked", "resolved", "inserted"}

C26_WitnessPartlySplit ==
  /\ PartlySplit
  /\ renderer.frame_cache # EmptyCache

---------------------------------------------------------------------------
(* Claims about the frame loop of the application, checked under SpecApp *)

\* the frame made the first advance of the playhead since Play was pressed
FirstAdvanceAfterPress ==
  /\ op.name = "frame"
  /\ op.resumed # None
  /\ op.elapsed > 0

\* C28: pressing the Play/Pause button resets the last-tick timestamp that
\* the playhead-advance step reads, so wall time spent paused is not added
\* to the playhead when playback resumes: the first advance after resuming
\* is at most playback_rate times the time since the button press.
C28_PressResetsLastTick ==
  /\ op.name = "frame" /\ op.clicked = "play_pause" =>
       app.last_play_time = Some(app.clock)
  /\ FirstAdvanceAfterPress =>
       op.advanced <= op.before.playback_state.playback_rate
                         * (app.clock - op.resumed[1])

---------------------------------------------------------------------------
(* Claims about pull_sample_with_timeout, checked under SpecPull *)

\* the loop gives up only once the timeout has passed
GivesUpAfterTimeout ==
  pull.pc = "returned" /\ pull.ret = None => pull.elapsed > PullTimeoutMillis

\* C24: render_frame always returns: the wait for a decoded sample is
\* time-bounded, pull_sample_with_timeout gives up after its timeout even if
\* the decoder never delivers a sample.
C24_PullAlwaysReturns == <>(pull.pc = "returned")

---------------------------------------------------------------------------
(* Claims about the MediaLibrary, checked under SpecLib *)

\* the file names of the items of a library
NamesIn(lib) == {lib.items[i].file_descriptor.file_name : i \in 1 .. Len(lib.items)}

\* C27: after remove_by_filename(name) returns an item,
\* find_by_filename(name) returns none and every item with a different file
\* name is still found; remove_by_filename on a name that is not present
\* returns none and leaves the library unchanged.
C27_RemovedIsGone ==
  op.name = "remove_by_filename" =>
     /\ op.ret # None =>
          /\ find_by_filename(library, op.file_name) = None
          /\ \A name \in NamesIn(op.before) \ {op.file_name} :
                find_by_filename(library, name) = find_by_filename(op.before, name)
     /\ op.file_name \notin NamesIn(op.before) =>
          /\ op.ret = None
          /\ library = op.before

====
